---- MODULE Spec2Model ----
(***************************************************************************)
(* A model of the DeyeCloud integration (custom_components/deyecloud):     *)
(* the sensor platform's setup cycle (async_setup_entry), the per-entity   *)
(* refresh (_BasicSensor.async_update), the button platform and the cloud  *)
(* client functions they call.                                             *)
(*                                                                         *)
(* Conventions.                                                            *)
(*  - A Python value that may be None is a sequence: <<>> is None and      *)
(*    <<v>> is the value v.                                                *)
(*  - A string that the code splits on '_' or '-' is the sequence of its   *)
(*    pieces ("101_raw_2024_03" is <<"101","raw","2024","03">>); the       *)
(*    pieces themselves hold no separator.                                 *)
(*  - An exception is the text str(exc) gives, as a sequence of pieces.    *)
(*  - The file system is taken to be writable: _async_save_cache and       *)
(*    _async_clear_cache do not raise.                                     *)
(***************************************************************************)
EXTENDS Integers, Sequences, FiniteSets, Bags, TLC

\* ------------------------------------------------------------------ bounds
MaxStations == 2    \* longest station list the provider answers with
MaxCycles == 2      \* runs of the sensor platform's async_setup_entry
MaxUpdates == 2     \* runs of _BasicSensor.async_update
MaxPresses == 2     \* runs of DeyeSolarSellButton.async_press
MaxEpoch == 1       \* times the provider's readings change
MaxWalk == 26       \* months of the longest monthly history walk
MaxRecords == 2     \* records of a monthly history handed to the projection
MaxSpare == 10      \* inverters of station 102 that report no telemetry

\* ------------------------------------------------------------ basic values
None == <<>>
Some(v) == <<v>>
IsNone(o) == o = <<>>

\* dict.get(key): the value under key, None when the key is absent.
Get(d, k) == IF k \in DOMAIN d THEN Some(d[k]) ELSE None

\* f"{n:02d}"
Pad2(n) == IF n < 10 THEN "0" \o ToString(n) ELSE ToString(n)

\* ------------------------------------------------------------------- dates
\* A month is counted from year 0: YM(2024, 1) is January 2024.
YM(y, m) == y * 12 + (m - 1)
YearOf(ym) == ym \div 12
MonthOf(ym) == (ym % 12) + 1

\* The months and years the model's dates stay within.
Years == 2022 .. 2025
Months == YM(2022, 1) .. YM(2025, 12)

\* dt.strftime("%Y-%m") and datetime.strptime(s, "%Y-%m"); the latter raises
\* ValueError on a string that is no month, modelled as None.
StrfMonth(ym) == <<ToString(YearOf(ym)), Pad2(MonthOf(ym))>>
StrpMonth(s) ==
    IF \E ym \in Months : StrfMonth(ym) = s
    THEN Some(CHOOSE ym \in Months : StrfMonth(ym) = s)
    ELSE None

DaysIn(y, m) ==
    IF m = 2 THEN (IF y % 4 = 0 THEN 29 ELSE 28)
    ELSE IF m \in {4, 6, 9, 11} THEN 30 ELSE 31

\* A date is [y, m, d]. date - timedelta(days=1) and date + timedelta(days=1).
PrevDay(dt) ==
    IF dt.d > 1 THEN [dt EXCEPT !.d = dt.d - 1]
    ELSE IF dt.m > 1 THEN [y |-> dt.y, m |-> dt.m - 1, d |-> DaysIn(dt.y, dt.m - 1)]
    ELSE [y |-> dt.y - 1, m |-> 12, d |-> 31]
NextDay(dt) ==
    IF dt.d < DaysIn(dt.y, dt.m) THEN [dt EXCEPT !.d = dt.d + 1]
    ELSE IF dt.m < 12 THEN [y |-> dt.y, m |-> dt.m + 1, d |-> 1]
    ELSE [y |-> dt.y + 1, m |-> 1, d |-> 1]

\* dt.strftime("%Y-%m-%d") and datetime.strptime(s, "%Y-%m-%d").
StrfDate(dt) == <<ToString(dt.y), Pad2(dt.m), Pad2(dt.d)>>
StrpDate(s) ==
    [y |-> CHOOSE y \in Years : ToString(y) = s[1],
     m |-> CHOOSE m \in 1 .. 12 : Pad2(m) = s[2],
     d |-> CHOOSE d \in 1 .. 31 : Pad2(d) = s[3]]

\* now - relativedelta(months=1), as a month.
PrevMonth(ym) == ym - 1


\* ------------------------------------------------------- provider answers
\* What the provider can put in the msg of a success=false body.
Msgs == {"bad token", "quota"}

\* A response: the HTTP status and the JSON body's success flag and msg; data
\* is the body's payload field (accessToken, stationList, ...), None when the
\* body does not carry it.
OkResp(payload) == [status |-> 200, success |-> TRUE, msg |-> "", data |-> Some(payload)]
HttpErrorResp == [status |-> 500, success |-> FALSE, msg |-> "", data |-> None]
NotSuccessResp(m) == [status |-> 200, success |-> FALSE, msg |-> m, data |-> None]
FailedResps == {HttpErrorResp} \cup {NotSuccessResp(m) : m \in Msgs}
Answers(payload) == {OkResp(payload)} \cup FailedResps

\* The provider's stations: one keyed "id", one keyed "stationId", one
\* malformed record that has neither.
S101 == [id |-> Some("101"), stationId |-> None]
S102 == [id |-> None, stationId |-> Some("102")]
SBad == [id |-> None, stationId |-> None]
StationPool == <<S101, SBad, S102>>

\* The station lists a station-list response can carry: the sub-lists of the
\* pool with at most MaxStations records.
RECURSIVE Pick(_, _)
Pick(pool, idx) ==
    IF pool = <<>> THEN <<>>
    ELSE (IF 1 \in idx THEN <<Head(pool)>> ELSE <<>>)
         \o Pick(Tail(pool), {i - 1 : i \in idx \ {1}})
StationLists ==
    {Pick(StationPool, idx) : idx \in {s \in SUBSET (1 .. Len(StationPool)) : Cardinality(s) <= MaxStations}}

\* Monthly records the provider holds, per station and month. A record is a
\* JSON object: a field that is not reported is absent.
ProviderMonthly(sid, ym, epoch) ==
    LET base == [year |-> YearOf(ym), month |-> MonthOf(ym)]
        v == MonthOf(ym) * 10 + epoch
    IN  IF sid = "101" /\ ym = YM(2023, 12)
            THEN Some(base @@ [consumptionValue |-> v + 1])
        ELSE IF sid = "101" /\ ym \in {YM(2024, 2), YM(2024, 3)}
            THEN Some(base @@ [generationValue |-> v, consumptionValue |-> v + 1])
        ELSE IF sid = "102" /\ ym = YM(2024, 3)
            THEN Some(base @@ [generationValue |-> v + 500])
        ELSE None

RECURSIVE MonthlyInWindow(_, _, _, _)
MonthlyInWindow(sid, from, to, epoch) ==
    IF from > to THEN <<>>
    ELSE ProviderMonthly(sid, from, epoch) \o MonthlyInWindow(sid, from + 1, to, epoch)

\* Daily records the provider holds, per station and date.
ProviderDaily(sid, dt, epoch) ==
    LET base == [year |-> dt.y, month |-> dt.m, day |-> dt.d]
        v == dt.d + 100 * epoch
    IN  IF sid = "101" /\ dt.d % 7 = 0 THEN <<>>
        ELSE IF sid = "101" THEN <<base @@ [generationValue |-> v, consumptionValue |-> v + 1]>>
        ELSE IF sid = "102" THEN <<base @@ [generationValue |-> v + 500]>>
        ELSE <<>>

\* The devices the provider lists per station, and their latest telemetry.
\* A serial number and a telemetry key are strings, written by their pieces.
ProviderDevices(sid) ==
    IF sid = "101" THEN <<[deviceSn |-> <<"SN1">>, deviceType |-> "INVERTER"],
                          [deviceSn |-> <<"B7">>, deviceType |-> "BATTERY"]>>
    ELSE IF sid = "102" THEN <<[deviceSn |-> <<"X", "2">>, deviceType |-> "INVERTER"]>>
                             \o [k \in 1 .. MaxSpare |->
                                    [deviceSn |-> <<ToString(900 + k)>>, deviceType |-> "INVERTER"]]
    ELSE <<>>

ProviderStatus(sn, epoch) ==
    IF sn = <<"SN1">> THEN
        <<[deviceSn |-> Some(sn), deviceType |-> "INVERTER", deviceState |-> 1,
           collectionTime |-> 1700 + epoch,
           dataList |-> <<[key |-> <<"Power">>, value |-> 40 + epoch, unit |-> "W"],
                          [key |-> <<"SOC">>, value |-> 80 + epoch, unit |-> "%"]>>]>>
    ELSE IF sn = <<"X", "2">> THEN
        <<[deviceSn |-> Some(sn), deviceType |-> "INVERTER", deviceState |-> 2,
           collectionTime |-> 1700 + epoch,
           dataList |-> <<[key |-> <<"Power">>, value |-> 60 + epoch, unit |-> "W"]>>]>>
    ELSE <<>>

RECURSIVE FlatMap(_, _)
FlatMap(F(_), s) == IF s = <<>> THEN <<>> ELSE F(Head(s)) \o FlatMap(F, Tail(s))

\* What a request's answer says, without its payload.
Envelope(resp) == [status |-> resp.status, success |-> resp.success, msg |-> resp.msg]
NoResp == [status |-> 0, success |-> FALSE, msg |-> ""]

\* ------------------------------------------------------------ cloud client
\* A call either returns a value or raises.
Ret(v) == [raised |-> FALSE, val |-> v, err |-> <<>>]
Raise(e) == [raised |-> TRUE, val |-> <<>>, err |-> e]

\* resp.raise_for_status()
HttpError(resp) == <<"ClientResponseError", ToString(resp.status)>>

\* body.get(field, []) of a list-valued field
DataOrEmpty(resp) == IF IsNone(resp.data) THEN <<>> ELSE resp.data[1]

\* A token call that raises on success=false without the provider's msg.
TokenErrorWithoutMsg(resp) ==
    IF resp.status >= 400 THEN Raise(HttpError(resp))
    ELSE IF ~resp.success THEN Raise(<<"Token request failed">>)
    ELSE Ret(resp.data[1])

\* sensor.py _async_get_token: the token, or the failure it raises.
_async_get_token(resp) ==
    IF resp.status >= 400 THEN Raise(HttpError(resp))
    ELSE IF ~resp.success THEN Raise(<<"Token request failed", resp.msg>>)
    ELSE Ret(resp.data[1])

\* api.py async_get_token, used by the button platform.
async_get_token(resp) ==
    IF resp.status >= 400 THEN Raise(HttpError(resp))
    ELSE IF ~resp.success THEN Raise(<<"Token request failed", resp.msg>>)
    ELSE Ret(resp.data[1])

\* _async_station_list: the body's stationList; the success flag is not read.
_async_station_list(resp) ==
    IF resp.status >= 400 THEN Raise(HttpError(resp))
    ELSE Ret(DataOrEmpty(resp))

\* One chunk request of _async_history.
HistoryChunk(resp) ==
    IF resp.status >= 400 THEN Raise(HttpError(resp))
    ELSE IF ~resp.success THEN Raise(<<"History request failed", resp.msg>>)
    ELSE Ret(DataOrEmpty(resp))

_async_daily_history(resp) ==
    IF resp.status >= 400 THEN Raise(HttpError(resp))
    ELSE IF ~resp.success THEN Raise(<<"Daily history request failed", resp.msg>>)
    ELSE Ret(DataOrEmpty(resp))

\* st.get("id") or st.get("stationId")
StationId(st) == IF ~IsNone(st.id) THEN st.id ELSE st.stationId

\* A stationIds list that keeps a place, with an empty id, for a station
\* record without one.
RECURSIVE StationIdsWithGaps(_)
StationIdsWithGaps(sts) ==
    IF sts = <<>> THEN <<>>
    ELSE (IF IsNone(StationId(Head(sts))) THEN <<"">> ELSE StationId(Head(sts)))
         \o StationIdsWithGaps(Tail(sts))

\* The stationIds of the device-list request: the ids of the stations that
\* have one.
RECURSIVE DeviceListStationIds(_)
DeviceListStationIds(sts) ==
    IF sts = <<>> THEN <<>>
    ELSE StationId(Head(sts)) \o DeviceListStationIds(Tail(sts))

\* The serial numbers of the INVERTER devices, in list order.
RECURSIVE InverterSns(_)
InverterSns(items) ==
    IF items = <<>> THEN <<>>
    ELSE (IF Head(items).deviceType = "INVERTER" THEN <<Head(items).deviceSn>> ELSE <<>>)
         \o InverterSns(Tail(items))

_async_get_device_list(resp) ==
    IF resp.status >= 400 THEN Raise(HttpError(resp))
    ELSE IF ~resp.success THEN Raise(<<"Device list request failed", resp.msg>>)
    ELSE Ret(InverterSns(DataOrEmpty(resp)))

_async_get_device_status(resp) ==
    IF resp.status >= 400 THEN Raise(HttpError(resp))
    ELSE IF ~resp.success THEN Raise(<<"Device status request failed", resp.msg>>)
    ELSE Ret(DataOrEmpty(resp))

\* api.py async_control_solar_sell: the body, whatever it says.
async_control_solar_sell(resp) ==
    IF resp.status >= 400 THEN Raise(HttpError(resp))
    ELSE Ret([success |-> resp.success, msg |-> resp.msg])

\* A slice that keeps the whole list.
WholeList(s, n) == s

\* device_sns[:10]
DEVICE_LIMIT == 10
FirstN(s, n) == IF Len(s) <= n THEN s ELSE SubSeq(s, 1, n)

\* What the provider answers a request with when it answers with success.
RECURSIVE DevicesOf(_)
DevicesOf(sids) ==
    IF sids = <<>> THEN <<>> ELSE ProviderDevices(Head(sids)) \o DevicesOf(Tail(sids))
RECURSIVE StatusOf(_, _)
StatusOf(sns, epoch) ==
    IF sns = <<>> THEN <<>> ELSE ProviderStatus(Head(sns), epoch) \o StatusOf(Tail(sns), epoch)

\* ------------------------------------------------------------ history walk
Min(a, b) == IF a <= b THEN a ELSE b

\* A chunk end that is not held back at the current month.
RangeEndUncapped(start, end) == start + 11
\* A chunk of six months.
RangeEndSix(start, end) == Min(start + 5, end)
\* A chunk of thirteen months.
RangeEndThirteen(start, end) == Min(start + 12, end)

\* The end of the chunk that starts at month start, in a walk that ends at
\* month end: min(range_start + relativedelta(months=11), end).
RangeEnd(start, end) == Min(start + 11, end)

\* ------------------------------------------------------------- projection
\* _BasicSensor.__init__: the entity's fields; _token starts as None (0).
BasicSensor(name, unique_id, native_value, unit, device_class, state_class, extra_state_attributes) ==
    [name |-> name, unique_id |-> unique_id, native_value |-> native_value,
     unit |-> unit, device_class |-> device_class, state_class |-> state_class,
     attrs |-> extra_state_attributes, token |-> 0]

\* The clock readings async_setup_entry and async_update take from
\* datetime.now(): this month, last month, and the three dates as strings.
Clock(dt) ==
    [this_year |-> dt.y, this_month |-> dt.m,
     prev_year |-> YearOf(PrevMonth(YM(dt.y, dt.m))),
     prev_month |-> MonthOf(PrevMonth(YM(dt.y, dt.m))),
     today |-> StrfDate(dt),
     yesterday |-> StrfDate(PrevDay(dt)),
     day_before_yesterday |-> StrfDate(PrevDay(PrevDay(dt)))]

_METRICS ==
    <<[nice |-> "Solar Generation", key |-> "generationValue"],
      [nice |-> "Monthly Consumption", key |-> "consumptionValue"],
      [nice |-> "Monthly Grid Export", key |-> "gridValue"],
      [nice |-> "Monthly Grid Import", key |-> "purchaseValue"],
      [nice |-> "Monthly Battery Charge", key |-> "chargeValue"],
      [nice |-> "Monthly Battery Discharge", key |-> "dischargeValue"]>>

_DAILY_METRICS ==
    <<[nice |-> "Solar Generation", key |-> "generationValue"],
      [nice |-> "Daily Consumption", key |-> "consumptionValue"],
      [nice |-> "Daily Grid Export", key |-> "gridValue"],
      [nice |-> "Daily Grid Import", key |-> "purchaseValue"],
      [nice |-> "Daily Battery Charge", key |-> "chargeValue"],
      [nice |-> "Daily Battery Discharge", key |-> "dischargeValue"]>>

\* strftime("%b")
MonthAbbr(m) ==
    <<"Jan", "Feb", "Mar", "Apr", "May", "Jun", "Jul", "Aug", "Sep", "Oct", "Nov", "Dec">>[m]

\* sorted(history, key=lambda x: (x["year"], x["month"])): a stable sort.
RECURSIVE InsertByMonth(_, _)
InsertByMonth(item, sorted) ==
    IF sorted = <<>> THEN <<item>>
    ELSE IF YM(item.year, item.month) <= YM(Head(sorted).year, Head(sorted).month)
         THEN <<item>> \o sorted
         ELSE <<Head(sorted)>> \o InsertByMonth(item, Tail(sorted))
RECURSIVE SortedByMonth(_)
SortedByMonth(history) ==
    IF history = <<>> THEN <<>>
    ELSE InsertByMonth(Head(history), SortedByMonth(Tail(history)))

\* {(i["year"], i["month"]): i for i in history}.get((y, m)): the last record
\* of the list with that key.
HistoryIndexGet(history, y, m) ==
    LET at == {i \in 1 .. Len(history) : history[i].year = y /\ history[i].month = m}
    IN  IF at = {} THEN None
        ELSE Some(history[CHOOSE i \in at : \A j \in at : j <= i])

\* item.get(key) of an item that may itself be missing ({}.get(key) is None).
ItemGet(item, key) == IF IsNone(item) THEN None ELSE Get(item[1], key)

\* A raw entity whose identifier also carries the reading.
RawSensorByValue(station_id, item) ==
    IF IsNone(Get(item, "generationValue")) THEN <<>>
    ELSE <<BasicSensor(<<"Deye", station_id, MonthAbbr(item.month), ToString(item.year)>>,
                       <<station_id, "raw", ToString(item.year), Pad2(item.month),
                         ToString(item.generationValue)>>,
                       Get(item, "generationValue"), "kWh", Some("energy"),
                       Some("total_increasing"), item)>>

\* A raw entity for every record, zero when generationValue is absent.
RawSensorZeroFill(station_id, item) ==
    <<BasicSensor(<<"Deye", station_id, MonthAbbr(item.month), ToString(item.year)>>,
                  <<station_id, "raw", ToString(item.year), Pad2(item.month)>>,
                  IF IsNone(Get(item, "generationValue")) THEN Some(0)
                  ELSE Get(item, "generationValue"),
                  "kWh", Some("energy"), Some("total_increasing"), item)>>

\* The monthly-raw entity of one history record: none when generationValue
\* is absent.
RawSensor(station_id, item) ==
    IF IsNone(Get(item, "generationValue")) THEN <<>>
    ELSE <<BasicSensor(<<"Deye", station_id, MonthAbbr(item.month), ToString(item.year)>>,
                       <<station_id, "raw", ToString(item.year), Pad2(item.month)>>,
                       Get(item, "generationValue"), "kWh", Some("energy"),
                       Some("total_increasing"), item)>>

RawSensors(station_id, history) ==
    FlatMap(LAMBDA item : RawSensor(station_id, item), SortedByMonth(history))

\* The current-month and last-month entities of one metric.
MonthlySensor(station_id, history, clk, metric) ==
    LET cur_val == ItemGet(HistoryIndexGet(history, clk.this_year, clk.this_month), metric.key)
        prev_val == ItemGet(HistoryIndexGet(history, clk.prev_year, clk.prev_month), metric.key)
    IN  (IF IsNone(cur_val) THEN <<>>
         ELSE <<BasicSensor(<<metric.nice, station_id>>,
                            <<station_id, metric.key, "current", "month">>,
                            cur_val, "kWh", Some("energy"), Some("total_increasing"),
                            [year |-> clk.this_year, month |-> clk.this_month,
                             station_id |-> station_id])>>)
        \o
        (IF IsNone(prev_val) THEN <<>>
         ELSE <<BasicSensor(<<metric.nice, "(Thang truoc)", station_id>>,
                            <<station_id, metric.key, "last", "month">>,
                            prev_val, "kWh", Some("energy"), Some("total_increasing"),
                            [year |-> clk.prev_year, month |-> clk.prev_month,
                             station_id |-> station_id])>>)

MonthlySensors(station_id, history, clk) ==
    FlatMap(LAMBDA metric : MonthlySensor(station_id, history, clk, metric), _METRICS)

\* relative_days.get(date): the label of a date, None for a date that is none
\* of today, yesterday and the day before.
RelativeDays(date, clk) ==
    IF date = clk.day_before_yesterday THEN Some(<<"day", "before", "yesterday">>)
    ELSE IF date = clk.yesterday THEN Some(<<"yesterday">>)
    ELSE IF date = clk.today THEN Some(<<"today">>)
    ELSE None

\* f"{station_id}_{key}{relative_day}": a label starts with '_'; the fallback
\* date.replace('-', '_') does not, so the key runs into the year.
DailyUid(station_id, key, date, clk) ==
    IF IsNone(RelativeDays(date, clk))
    THEN <<station_id, key \o date[1], date[2], date[3]>>
    ELSE <<station_id, key>> \o RelativeDays(date, clk)[1]

\* The daily entities of one date's record; daily_history is the list of
\* [date, data] in the order the dates were stored.
DailySensor(station_id, day, clk, metric) ==
    IF IsNone(Get(day.data, metric.key)) THEN <<>>
    ELSE <<BasicSensor(<<metric.nice>> \o Tail(Tail(DailyUid(station_id, metric.key, day.date, clk)))
                           \o <<station_id>>,
                       DailyUid(station_id, metric.key, day.date, clk),
                       Get(day.data, metric.key), "kWh", Some("energy"),
                       Some("total_increasing"),
                       [date |-> day.date, station_id |-> station_id])>>

DailySensors(station_id, daily_history, clk) ==
    FlatMap(LAMBDA day :
                FlatMap(LAMBDA metric : DailySensor(station_id, day, clk, metric), _DAILY_METRICS),
            daily_history)

\* The entities of one device-status record: one per item of its dataList,
\* none when the record has no deviceSn.
DeviceSensor(device_data, data) ==
    BasicSensor(data.key \o device_data.deviceSn[1],
                <<"device">> \o device_data.deviceSn[1] \o data.key,
                Some(data.value), data.unit, None, None,
                [device_sn |-> device_data.deviceSn[1],
                 device_type |-> device_data.deviceType,
                 device_state |-> device_data.deviceState,
                 collection_time |-> device_data.collectionTime])

\* Device entities that stop at the first item of each dataList.
DeviceSensorsFirstItem(device_data_list) ==
    FlatMap(LAMBDA device_data :
                IF IsNone(device_data.deviceSn) \/ device_data.dataList = <<>> THEN <<>>
                ELSE <<DeviceSensor(device_data, device_data.dataList[1])>>,
            device_data_list)

DeviceSensors(device_data_list) ==
    FlatMap(LAMBDA device_data :
                IF IsNone(device_data.deviceSn) THEN <<>>
                ELSE FlatMap(LAMBDA data : <<DeviceSensor(device_data, data)>>,
                             device_data.dataList),
            device_data_list)

\* ------------------------------------------------------------------ state
VARIABLES
    now,                  \* the date datetime.now() gives
    epoch,                \* how often the provider's readings have changed
    tokenSeq,             \* the tokens the provider has issued so far
    HISTORY_START_MONTH,  \* sensor.py's module global
    cacheFile,            \* deye_history.json: None when the file is absent
    dailyCacheFile,       \* deye_daily_history.json
    published,            \* the entities async_add_entities handed to the host
    pc,                   \* where the sensor platform's async_setup_entry stands
    cycles,               \* how many times it has been started
    result,               \* how its last run ended: "none", "success", "failed"
    error,                \* the exception its last run raised
    token,                \* its local: token (0 is no token)
    stations,             \* its local: stations
    clk,                  \* its locals this_year .. day_before_yesterday
    tasks,                \* the process_station coroutines under gather
    entities,             \* its local: entities
    cache,                \* its local: cache
    daily_cache,          \* its local: daily_cache
    device_sns,           \* its local: device_sns
    requests,             \* the requests the current run has issued, as a bag
    lastResp,             \* the answer async_setup_entry's own last request got
    buttons,              \* the buttons the button platform handed to the host
    buttonsUp,            \* whether the button platform's async_setup_entry ran
    nUpdates,             \* runs of _BasicSensor.async_update so far
    nPresses,             \* runs of DeyeSolarSellButton.async_press so far
    lastOp,               \* what the last async_update, async_press or button
                          \* setup did: its requests, the answers and the outcome
    elapsed,              \* the tokens whose lease is over: those up to this one
    atStart,              \* what the host stored when the current run of the
                          \* sensor platform's async_setup_entry began
    snapshot,             \* the fetched data the projection is applied to
    projected             \* the entity list the projection last built from it

vars ==
    <<now, epoch, tokenSeq, HISTORY_START_MONTH, cacheFile, dailyCacheFile, published,
      pc, cycles, result, error, token, stations, clk, tasks, entities, cache,
      daily_cache, device_sns, requests, lastResp, buttons, buttonsUp, nUpdates,
      nPresses, lastOp, elapsed, atStart, snapshot, projected>>
projVars == <<snapshot, projected>>
opVars == <<buttons, buttonsUp, nUpdates, nPresses, lastOp, elapsed>>

\* No fetched data is held apart from the running cycle's locals.
NoSnapshot == [station_id |-> "", history |-> <<>>, daily_history |-> <<>>,
               device_data_list |-> <<>>]

\* entry.data[CONF_START_MONTH] of the configuration entry.
EntryStartMonth == <<"2023", "03">>

\* A request that carries no bearer token.
RequestWithoutToken(op, tok, arg) == [op |-> op, token |-> 0, arg |-> arg]

\* A request: the operation, the bearer token it carries (0: none) and its
\* payload.
Request(op, tok, arg) == [op |-> op, token |-> tok, arg |-> arg]
Issue(bag, req) == bag (+) SetToBag({req})

\* A process_station coroutine: its place, its station_id, the walk's next
\* start and its end, the records and entities gathered so far, the daily
\* dates still to fetch and the exception it ended with.
NewTask ==
    [pc |-> "start", station_id |-> None, start |-> 0, end |-> 0, items |-> <<>>,
     station_entities |-> <<>>, di |-> 1, daily_history |-> <<>>, err |-> <<>>,
     resp |-> NoResp]

\* One run of async_update, async_press or the button platform's setup.
NoOp == [kind |-> "none", target |-> 0, held |-> 0, reqs |-> <<>>, resps |-> <<>>,
         caught |-> <<>>]

Init ==
    /\ now = [y |-> 2024, m |-> 3, d |-> 1]
    /\ epoch = 0
    /\ tokenSeq = 0
    /\ HISTORY_START_MONTH = <<"2024", "01">>
    /\ cacheFile = None
    /\ dailyCacheFile = None
    /\ published = <<>>
    /\ pc = "idle"
    /\ cycles = 0
    /\ result = "none"
    /\ error = <<>>
    /\ token = 0
    /\ stations = <<>>
    /\ clk = Clock(now)
    /\ tasks = <<>>
    /\ entities = <<>>
    /\ cache = <<>>
    /\ daily_cache = <<>>
    /\ device_sns = <<>>
    /\ requests = EmptyBag
    /\ lastResp = NoResp
    /\ buttons = <<>>
    /\ buttonsUp = FALSE
    /\ nUpdates = 0
    /\ nPresses = 0
    /\ lastOp = NoOp
    /\ elapsed = 0
    /\ atStart = <<None, None, <<>>>>
    /\ snapshot = NoSnapshot
    /\ projected = None

\* ------------------------------------------- sensor.py async_setup_entry
\* A start of the cycle that keeps the dictionaries of the cycle before.
SetupStartKeepingCaches ==
    /\ pc \in {"idle", "done"}
    /\ cycles < MaxCycles
    /\ cycles' = cycles + 1
    /\ HISTORY_START_MONTH' = EntryStartMonth
    /\ cacheFile' = None
    /\ dailyCacheFile' = None
    /\ entities' = <<>>
    /\ token' = 0
    /\ stations' = <<>>
    /\ tasks' = <<>>
    /\ device_sns' = <<>>
    /\ result' = "none"
    /\ error' = <<>>
    /\ requests' = EmptyBag
    /\ lastResp' = NoResp
    /\ pc' = "token"
    /\ UNCHANGED <<now, epoch, tokenSeq, published, clk, cache, daily_cache>>
    /\ UNCHANGED <<opVars, projVars>>
    /\ atStart' = <<cacheFile, dailyCacheFile, published>>

\* Lines 310-327: set the global, delete both cache files, start empty.
SetupStart ==
    /\ pc \in {"idle", "done"}
    /\ cycles < MaxCycles
    /\ cycles' = cycles + 1
    /\ HISTORY_START_MONTH' = EntryStartMonth
    /\ cacheFile' = None
    /\ dailyCacheFile' = None
    /\ entities' = <<>>
    /\ cache' = <<>>
    /\ daily_cache' = <<>>
    /\ token' = 0
    /\ stations' = <<>>
    /\ tasks' = <<>>
    /\ device_sns' = <<>>
    /\ result' = "none"
    /\ error' = <<>>
    /\ requests' = EmptyBag
    /\ lastResp' = NoResp
    /\ pc' = "token"
    /\ UNCHANGED <<now, epoch, tokenSeq, published, clk>>
    /\ UNCHANGED <<opVars, projVars>>
    /\ atStart' = <<cacheFile, dailyCacheFile, published>>

\* Lines 548-550: an exception inside the try is logged and raised again.
SetupRaises(err) ==
    /\ pc' = "done"
    /\ result' = "failed"
    /\ error' = err

\* Line 332.
SetupToken ==
    /\ pc = "token"
    /\ \E resp \in Answers(tokenSeq + 1) :
        LET r == _async_get_token(resp) IN
        /\ requests' = Issue(requests, Request("token", 0, <<>>))
        /\ lastResp' = Envelope(resp)
        /\ tokenSeq' = IF resp.success THEN tokenSeq + 1 ELSE tokenSeq
        /\ IF r.raised
           THEN SetupRaises(r.err) /\ UNCHANGED token
           ELSE /\ token' = r.val
                /\ pc' = "stations"
                /\ UNCHANGED <<result, error>>
    /\ UNCHANGED <<now, epoch, HISTORY_START_MONTH, cacheFile, dailyCacheFile, published,
                   cycles, stations, clk, tasks, entities, cache, daily_cache, device_sns>>
    /\ UNCHANGED <<opVars, atStart, projVars>>

\* Lines 333-346 and the creation of the coroutines at line 501.
SetupStations ==
    /\ pc = "stations"
    /\ \E resp \in {OkResp(sl) : sl \in StationLists} \cup FailedResps :
        LET r == _async_station_list(resp) IN
        /\ requests' = Issue(requests, Request("station_list", token, <<>>))
        /\ lastResp' = Envelope(resp)
        /\ IF r.raised
           THEN SetupRaises(r.err) /\ UNCHANGED <<stations, clk, tasks>>
           ELSE IF r.val = <<>>
           THEN /\ pc' = "done"
                /\ result' = "success"
                /\ UNCHANGED <<error, stations, clk, tasks>>
           ELSE /\ stations' = r.val
                /\ clk' = Clock(now)
                /\ tasks' = [i \in 1 .. Len(r.val) |-> NewTask]
                /\ pc' = "fanout"
                /\ UNCHANGED <<result, error>>
    /\ UNCHANGED <<now, epoch, tokenSeq, HISTORY_START_MONTH, cacheFile, dailyCacheFile,
                   published, cycles, token, entities, cache, daily_cache, device_sns>>
    /\ UNCHANGED <<opVars, atStart, projVars>>

\* ---------------------------------------------------------- process_station
\* The three dates of the daily loop, in its order (line 459).
DailyDates(c) == <<c.day_before_yesterday, c.yesterday, c.today>>

\* Lines 377-455, once _async_history has returned history: the record list
\* goes into cache and the monthly entities are built.
AfterHistory(t, history, c) ==
    [t EXCEPT !.pc = "daily", !.items = history, !.di = 1, !.daily_history = <<>>,
              !.station_entities = RawSensors(t.station_id[1], history)
                                   \o MonthlySensors(t.station_id[1], history, c)]

\* process_station raises: its locals are gone, gather keeps the exception.
TaskRaises(t, err) ==
    [t EXCEPT !.pc = "failed", !.err = err, !.items = <<>>, !.station_entities = <<>>,
              !.daily_history = <<>>]

\* Lines 368-371 and the start of _async_history (lines 61-67): a station
\* without an id is skipped; otherwise the walk's start is parsed from the
\* global and its end is the current month.
TaskStart(i) ==
    /\ pc = "fanout"
    /\ i \in DOMAIN tasks
    /\ tasks[i].pc = "start"
    /\ LET sid == StationId(stations[i])
           start == StrpMonth(HISTORY_START_MONTH)
           end == YM(now.y, now.m)
           t == [tasks[i] EXCEPT !.station_id = sid]
       IN  IF IsNone(sid)
           THEN /\ tasks' = [tasks EXCEPT ![i] = [t EXCEPT !.pc = "skipped"]]
                /\ UNCHANGED cache
           ELSE IF IsNone(start)
           THEN /\ tasks' = [tasks EXCEPT ![i] = TaskRaises(t, <<"ValueError">>)]
                /\ UNCHANGED cache
           ELSE IF start[1] > end
           THEN /\ tasks' = [tasks EXCEPT ![i] = AfterHistory(t, <<>>, clk)]
                /\ cache' = (sid[1] :> <<>>) @@ cache
           ELSE /\ tasks' = [tasks EXCEPT ![i] = [t EXCEPT !.pc = "history",
                                                         !.start = start[1], !.end = end]]
                /\ UNCHANGED cache
    /\ UNCHANGED <<now, epoch, tokenSeq, HISTORY_START_MONTH, cacheFile, dailyCacheFile,
                   published, pc, cycles, result, error, token, stations, clk, entities,
                   daily_cache, device_sns, requests, lastResp>>
    /\ UNCHANGED <<opVars, atStart, projVars>>

\* One turn of the loop of _async_history (lines 67-83), and lines 376-455
\* when it was the last.
TaskHistory(i) ==
    /\ pc = "fanout"
    /\ i \in DOMAIN tasks
    /\ tasks[i].pc = "history"
    /\ LET sid == tasks[i].station_id[1]
           range_end == RangeEnd(tasks[i].start, tasks[i].end)
       IN  \E resp \in Answers(MonthlyInWindow(sid, tasks[i].start, range_end, epoch)) :
            LET r == HistoryChunk(resp)
                t == [tasks[i] EXCEPT !.resp = Envelope(resp)]
            IN
            /\ requests' = Issue(requests, Request("history", token,
                                    <<sid, StrfMonth(t.start), StrfMonth(range_end)>>))
            /\ IF r.raised
               THEN /\ tasks' = [tasks EXCEPT ![i] = TaskRaises(t, r.err)]
                    /\ UNCHANGED cache
               ELSE IF range_end + 1 > t.end
               THEN /\ tasks' = [tasks EXCEPT ![i] = AfterHistory(t, t.items \o r.val, clk)]
                    /\ cache' = (sid :> (t.items \o r.val)) @@ cache
               ELSE /\ tasks' = [tasks EXCEPT ![i] = [t EXCEPT !.items = t.items \o r.val,
                                                             !.start = range_end + 1]]
                    /\ UNCHANGED cache
    /\ UNCHANGED <<now, epoch, tokenSeq, HISTORY_START_MONTH, cacheFile, dailyCacheFile,
                   published, pc, cycles, result, error, token, stations, clk, entities,
                   daily_cache, device_sns, lastResp>>
    /\ UNCHANGED <<opVars, atStart, projVars>>

\* One turn of the daily loop (lines 459-466), and lines 468-498 when it was
\* the last.
TaskDaily(i) ==
    /\ pc = "fanout"
    /\ i \in DOMAIN tasks
    /\ tasks[i].pc = "daily"
    /\ LET sid == tasks[i].station_id[1]
           date == DailyDates(clk)[tasks[i].di]
           end_date == StrfDate(NextDay(StrpDate(date)))
       IN  \E resp \in Answers(ProviderDaily(sid, StrpDate(date), epoch)) :
            LET r == _async_daily_history(resp)
                t == [tasks[i] EXCEPT !.resp = Envelope(resp)]
                daily_history ==
                    IF r.raised \/ r.val = <<>> THEN t.daily_history
                    ELSE Append(t.daily_history, [date |-> date, data |-> r.val[1]])
            IN
            /\ requests' = Issue(requests, Request("daily", token, <<sid, date, end_date>>))
            /\ IF r.raised
               THEN /\ tasks' = [tasks EXCEPT ![i] = TaskRaises(t, r.err)]
                    /\ UNCHANGED daily_cache
               ELSE IF t.di = Len(DailyDates(clk))
               THEN /\ tasks' = [tasks EXCEPT ![i] =
                            [t EXCEPT !.pc = "done", !.daily_history = daily_history,
                                      !.station_entities =
                                          t.station_entities
                                          \o DailySensors(sid, daily_history, clk)]]
                    /\ daily_cache' = (sid :> daily_history) @@ daily_cache
               ELSE /\ tasks' = [tasks EXCEPT ![i] = [t EXCEPT !.di = t.di + 1,
                                                             !.daily_history = daily_history]]
                    /\ UNCHANGED daily_cache
    /\ UNCHANGED <<now, epoch, tokenSeq, HISTORY_START_MONTH, cacheFile, dailyCacheFile,
                   published, pc, cycles, result, error, token, stations, clk, entities,
                   cache, device_sns, lastResp>>
    /\ UNCHANGED <<opVars, atStart, projVars>>

\* Lines 501-506: gather has every coroutine's outcome; the lists are added
\* to entities in station order, the exceptions are logged.
RECURSIVE GatherResults(_)
GatherResults(ts) ==
    IF ts = <<>> THEN <<>>
    ELSE (IF Head(ts).pc = "failed" THEN <<>> ELSE Head(ts).station_entities)
         \o GatherResults(Tail(ts))

SetupJoin ==
    /\ pc = "fanout"
    /\ \A i \in DOMAIN tasks : tasks[i].pc \in {"done", "failed", "skipped"}
    /\ entities' = entities \o GatherResults(tasks)
    /\ tasks' = [i \in DOMAIN tasks |->
                    [tasks[i] EXCEPT !.items = <<>>, !.station_entities = <<>>,
                                     !.daily_history = <<>>]]
    /\ pc' = "devices"
    /\ UNCHANGED <<now, epoch, tokenSeq, HISTORY_START_MONTH, cacheFile, dailyCacheFile,
                   published, cycles, result, error, token, stations, clk, cache,
                   daily_cache, device_sns, requests, lastResp>>
    /\ UNCHANGED <<opVars, atStart, projVars>>

\* Line 509: _async_get_device_list. No request goes out when no station has
\* an id.
SetupDeviceList ==
    /\ pc = "devices"
    /\ LET station_ids == DeviceListStationIds(stations) IN
       IF station_ids = <<>>
       THEN /\ device_sns' = <<>>
            /\ pc' = "save"
            /\ UNCHANGED <<result, error, requests, lastResp>>
       ELSE \E resp \in Answers(DevicesOf(station_ids)) :
            LET r == _async_get_device_list(resp) IN
            /\ requests' = Issue(requests, Request("device_list", token, station_ids))
            /\ lastResp' = Envelope(resp)
            /\ IF r.raised
               THEN SetupRaises(r.err) /\ UNCHANGED device_sns
               ELSE /\ device_sns' = r.val
                    /\ pc' = IF r.val = <<>> THEN "save" ELSE "status"
                    /\ UNCHANGED <<result, error>>
    /\ UNCHANGED <<now, epoch, tokenSeq, HISTORY_START_MONTH, cacheFile, dailyCacheFile,
                   published, cycles, token, stations, clk, tasks, entities, cache,
                   daily_cache>>
    /\ UNCHANGED <<opVars, atStart, projVars>>

\* Lines 510-537: the status of the first DEVICE_LIMIT devices and their
\* entities.
SetupDeviceStatus ==
    /\ pc = "status"
    /\ LET device_list == FirstN(device_sns, DEVICE_LIMIT) IN
       \E resp \in Answers(StatusOf(device_list, epoch)) :
        LET r == _async_get_device_status(resp) IN
        /\ requests' = Issue(requests, Request("device_status", token, device_list))
        /\ lastResp' = Envelope(resp)
        /\ IF r.raised
           THEN SetupRaises(r.err) /\ UNCHANGED entities
           ELSE /\ entities' = entities \o DeviceSensors(r.val)
                /\ pc' = "save"
                /\ UNCHANGED <<result, error>>
    /\ UNCHANGED <<now, epoch, tokenSeq, HISTORY_START_MONTH, cacheFile, dailyCacheFile,
                   published, cycles, token, stations, clk, tasks, cache, daily_cache,
                   device_sns>>
    /\ UNCHANGED <<opVars, atStart, projVars>>

\* Lines 539-552: both caches are written and the entities handed over.
SetupSave ==
    /\ pc = "save"
    /\ cacheFile' = Some(cache)
    /\ dailyCacheFile' = Some(daily_cache)
    /\ published' = entities
    /\ result' = "success"
    /\ pc' = "done"
    /\ UNCHANGED <<now, epoch, tokenSeq, HISTORY_START_MONTH, cycles, error, token,
                   stations, clk, tasks, entities, cache, daily_cache, device_sns,
                   requests, lastResp>>
    /\ UNCHANGED <<opVars, atStart, projVars>>

\* ------------------------------------------------- _BasicSensor.async_update
\* The answer to the n-th request of a run: under plan the at-th request is
\* answered with the failure plan.resp, every other one with success.
PlanResps == {HttpErrorResp, NotSuccessResp("quota")}
Plans(n) ==
    {[at |-> 0, resp |-> HttpErrorResp]}
    \cup {[at |-> k, resp |-> f] : k \in 1 .. n, f \in PlanResps}
RespFor(plan, n, payload) == IF plan.at = n THEN plan.resp ELSE OkResp(payload)

\* The most requests one run of async_update issues: the token and the three
\* daily fetches.
MaxOpRequests == 4

\* What a step of a run hands on: whether it raised, the value or the
\* exception, and the requests issued with the answers they got.
Done(v, reqs, resps) == [raised |-> FALSE, val |-> v, err |-> <<>>, reqs |-> reqs, resps |-> resps]
Failed(e, reqs, resps) == [raised |-> TRUE, val |-> <<>>, err |-> e, reqs |-> reqs, resps |-> resps]

\* One request of a loop answered: r is what the call made of the answer,
\* got what the loop keeps of it, rest the loop's remaining turns.
Then(req, resp, r, got, rest) ==
    IF r.raised THEN Failed(r.err, <<req>>, <<Envelope(resp)>>)
    ELSE [raised |-> rest.raised,
          val |-> IF rest.raised THEN <<>> ELSE got \o rest.val,
          err |-> rest.err,
          reqs |-> <<req>> \o rest.reqs,
          resps |-> <<Envelope(resp)>> \o rest.resps]
ThenChunk(req, resp, r, rest) == Then(req, resp, r, r.val, rest)
ThenDay(req, resp, r, date, rest) ==
    Then(req, resp, r,
         IF r.raised \/ r.val = <<>> THEN <<>> ELSE <<[date |-> date, data |-> r.val[1]]>>,
         rest)

\* _async_history as one call (lines 60-85): the walk from month start to
\* month end, its requests numbered from n on; it raises at the first chunk
\* that fails and returns the concatenated records otherwise.
RECURSIVE _async_history(_, _, _, _, _, _, _)
HistoryTurn(tok, station_id, start, end, plan, n, ep, resp) ==
    ThenChunk(Request("history", tok,
                      <<station_id, StrfMonth(start), StrfMonth(RangeEnd(start, end))>>),
              resp, HistoryChunk(resp),
              _async_history(tok, station_id, RangeEnd(start, end) + 1, end, plan, n + 1, ep))
_async_history(tok, station_id, start, end, plan, n, ep) ==
    IF start > end THEN Done(<<>>, <<>>, <<>>)
    ELSE HistoryTurn(tok, station_id, start, end, plan, n, ep,
                     RespFor(plan, n, MonthlyInWindow(station_id, start,
                                                      RangeEnd(start, end), ep)))

\* The walk with the start read from the global: strptime raises ValueError
\* on a start month that is no month.
HistoryFrom(tok, station_id, hsm, dt, plan, n, ep) ==
    IF IsNone(StrpMonth(hsm)) THEN Failed(<<"ValueError">>, <<>>, <<>>)
    ELSE _async_history(tok, station_id, StrpMonth(hsm)[1], YM(dt.y, dt.m), plan, n, ep)

\* int(piece): None when int() raises ValueError.
IntOf(piece) ==
    LET nums == {n \in (0 .. 31) \cup Years : piece \in {ToString(n), Pad2(n)}}
    IN  IF nums = {} THEN None ELSE Some(CHOOSE n \in nums : TRUE)

\* The first place from index from on where piece x stands, 0 when nowhere.
IndexFrom(uid, x, from) ==
    LET at == {i \in from .. Len(uid) : uid[i] = x}
    IN  IF at = {} THEN 0 ELSE CHOOSE i \in at : \A j \in at : i <= j

\* "device_" in unique_id: a piece "device" that another piece follows (no
\* other piece of the model's identifiers ends in "device").
HasDevice(uid) == \E i \in 1 .. Len(uid) - 1 : uid[i] = "device"

\* unique_id.split("device_")[1].split("_")[0]: the piece after the first
\* "device_", empty when "device_" follows at once.
DeviceSnOf(uid) ==
    LET i == CHOOSE k \in 1 .. Len(uid) - 1 :
                 uid[k] = "device" /\ \A j \in 1 .. k - 1 : uid[j] # "device"
    IN  IF uid[i + 1] = "device" /\ i + 1 < Len(uid) THEN "" ELSE uid[i + 1]

\* "raw" in unique_id (no other piece of the model's identifiers holds "raw").
HasRaw(uid) == \E i \in 1 .. Len(uid) : uid[i] = "raw"

\* unique_id.split("_raw_")[1].split("_"): the pieces after the first "_raw_";
\* None when there is no "_raw_" (the [1] raises IndexError).
AfterRaw(uid) ==
    LET at == {i \in 2 .. Len(uid) - 1 : uid[i] = "raw"}
    IN  IF at = {} THEN None
        ELSE Some(SubSeq(uid, (CHOOSE i \in at : \A j \in at : i <= j) + 1, Len(uid)))

\* "_current_month" in unique_id, "_last_month" in unique_id.
HasLabel(uid, a, b) == \E i \in 2 .. Len(uid) - 1 : uid[i] = a /\ uid[i + 1] = b

\* Lines 228-240, from what _async_get_device_status made of the answer.
DeviceFound(ent, device_sn, device_data, hits) ==
    IF hits = {} THEN ent
    ELSE [ent EXCEPT !.native_value =
                         Some(device_data.dataList[CHOOSE i \in hits : \A j \in hits : i <= j].value),
                     !.unit = device_data.dataList[CHOOSE i \in hits : \A j \in hits : i <= j].unit,
                     !.attrs = [device_sn |-> <<device_sn>>,
                                device_type |-> device_data.deviceType,
                                device_state |-> device_data.deviceState,
                                collection_time |-> device_data.collectionTime]]
DeviceAnswered(ent, device_sn, req, resp, r) ==
    IF r.raised THEN Failed(r.err, <<req>>, <<Envelope(resp)>>)
    ELSE IF r.val = <<>> THEN Done(ent, <<req>>, <<Envelope(resp)>>)
    ELSE Done(DeviceFound(ent, device_sn, r.val[1],
                          {i \in 1 .. Len(r.val[1].dataList) :
                              <<"device", device_sn>> \o r.val[1].dataList[i].key
                                  = ent.unique_id}),
              <<req>>, <<Envelope(resp)>>)
DeviceAsked(ent, device_sn, req, resp) ==
    DeviceAnswered(ent, device_sn, req, resp, _async_get_device_status(resp))

\* The device branch (lines 224-240).
UpdateDevice(ent, tok, plan, n, ep) ==
    DeviceAsked(ent, DeviceSnOf(ent.unique_id),
                Request("device_status", tok, << <<DeviceSnOf(ent.unique_id)>> >>),
                RespFor(plan, n, StatusOf(<< <<DeviceSnOf(ent.unique_id)>> >>, ep)))

\* Lines 254-260, from the history the walk returned.
RawFound(ent, h, item) ==
    IF IsNone(ItemGet(item, "generationValue")) THEN Done(ent, h.reqs, h.resps)
    ELSE Done([ent EXCEPT !.native_value = ItemGet(item, "generationValue"),
                          !.attrs = item[1]],
              h.reqs, h.resps)
RawWalked(ent, h, rest) ==
    IF h.raised THEN h
    ELSE IF IsNone(rest) THEN Failed(<<"IndexError">>, h.reqs, h.resps)
    ELSE IF IsNone(IntOf(rest[1][1])) THEN Failed(<<"ValueError">>, h.reqs, h.resps)
    ELSE IF Len(rest[1]) < 2 THEN Failed(<<"IndexError">>, h.reqs, h.resps)
    ELSE IF IsNone(IntOf(rest[1][2])) THEN Failed(<<"ValueError">>, h.reqs, h.resps)
    ELSE RawFound(ent, h, HistoryIndexGet(h.val, IntOf(rest[1][1])[1], IntOf(rest[1][2])[1]))

\* The monthly-raw branch (lines 251-260).
UpdateRaw(ent, tok, hsm, dt, plan, n, ep) ==
    RawWalked(ent, HistoryFrom(tok, ent.unique_id[1], hsm, dt, plan, n, ep),
              AfterRaw(ent.unique_id))

\* Lines 264-273, from the history the walk returned: key is the piece
\* before the last, the attributes are replaced in either case.
MonthlyFound(ent, h, key, val, attrs) ==
    IF IsNone(val) THEN Done([ent EXCEPT !.attrs = attrs], h.reqs, h.resps)
    ELSE Done([ent EXCEPT !.attrs = attrs, !.native_value = val], h.reqs, h.resps)
MonthlyWalked(ent, h, y, m) ==
    IF h.raised THEN h
    ELSE MonthlyFound(ent, h, ent.unique_id[Len(ent.unique_id) - 1],
                      ItemGet(HistoryIndexGet(h.val, y, m),
                              ent.unique_id[Len(ent.unique_id) - 1]),
                      [year |-> y, month |-> m, station_id |-> ent.unique_id[1]])

\* The current-month and last-month branch (lines 261-273).
UpdateMonthly(ent, tok, hsm, c, dt, plan, n, ep) ==
    IF HasLabel(ent.unique_id, "current", "month")
    THEN MonthlyWalked(ent, HistoryFrom(tok, ent.unique_id[1], hsm, dt, plan, n, ep),
                       c.this_year, c.this_month)
    ELSE MonthlyWalked(ent, HistoryFrom(tok, ent.unique_id[1], hsm, dt, plan, n, ep),
                       c.prev_year, c.prev_month)

\* The three daily fetches of the daily branch (lines 276-284), from the
\* k-th date on.
RECURSIVE DailyFetches(_, _, _, _, _, _, _)
DailyTurn(tok, station_id, dates, k, plan, n, ep, resp) ==
    ThenDay(Request("daily", tok,
                    <<station_id, dates[k], StrfDate(NextDay(StrpDate(dates[k])))>>),
            resp, _async_daily_history(resp), dates[k],
            DailyFetches(tok, station_id, dates, k + 1, plan, n + 1, ep))
DailyFetches(tok, station_id, dates, k, plan, n, ep) ==
    IF k > Len(dates) THEN Done(<<>>, <<>>, <<>>)
    ELSE DailyTurn(tok, station_id, dates, k, plan, n, ep,
                   RespFor(plan, n, ProviderDaily(station_id, StrpDate(dates[k]), ep)))

\* unique_id.split(f"{station_id}_")[1].split(relative_day)[0], for a
\* relative_day that is '_' and the last piece: the pieces after the first up
\* to the first later piece that equals the last one.
DailyKeyOf(uid) ==
    IF Len(uid) < 3 THEN SubSeq(uid, 2, Len(uid))
    ELSE SubSeq(uid, 2, IndexFrom(uid, uid[Len(uid)], 3) - 1)

\* data.get(key) for a key given by its pieces: no field of a record has a
\* name with '_' in it.
PiecesGet(data, key) == IF Len(key) = 1 THEN Get(data, key[1]) ELSE None

\* The label relative_days gives a date, as the code compares it with
\* relative_day, which is '_' and the identifier's last piece: only a label
\* of one piece can be equal to it.
MatchesRelativeDay(uid, date, c) ==
    /\ ~IsNone(RelativeDays(date, c))
    /\ RelativeDays(date, c)[1] = <<uid[Len(uid)]>>

\* Lines 292-298, from the days the fetches stored: the first stored day
\* whose label matches and whose record has the key.
DailyFound(ent, f, hits) ==
    IF hits = {} THEN Done(ent, f.reqs, f.resps)
    ELSE Done([ent EXCEPT !.native_value =
                              PiecesGet(f.val[CHOOSE i \in hits : \A j \in hits : i <= j].data,
                                        DailyKeyOf(ent.unique_id)),
                          !.attrs = [date |-> f.val[CHOOSE i \in hits : \A j \in hits : i <= j].date,
                                     station_id |-> ent.unique_id[1]]],
              f.reqs, f.resps)
DailyFetched(ent, f, c) ==
    IF f.raised THEN f
    ELSE DailyFound(ent, f,
                    {i \in 1 .. Len(f.val) :
                        /\ MatchesRelativeDay(ent.unique_id, f.val[i].date, c)
                        /\ ~IsNone(PiecesGet(f.val[i].data, DailyKeyOf(ent.unique_id)))})

\* The daily branch (lines 275-298).
UpdateDaily(ent, tok, c, plan, n, ep) ==
    DailyFetched(ent, DailyFetches(tok, ent.unique_id[1], DailyDates(c), 1, plan, n, ep), c)

\* Lines 223-298: the branch is chosen from the identifier.
UpdateFetch(ent, tok, hsm, c, dt, plan, n, ep) ==
    IF HasDevice(ent.unique_id) THEN UpdateDevice(ent, tok, plan, n, ep)
    ELSE IF HasRaw(ent.unique_id) THEN UpdateRaw(ent, tok, hsm, dt, plan, n, ep)
    ELSE IF HasLabel(ent.unique_id, "current", "month") \/ HasLabel(ent.unique_id, "last", "month")
        THEN UpdateMonthly(ent, tok, hsm, c, dt, plan, n, ep)
    ELSE UpdateDaily(ent, tok, c, plan, n, ep)

\* An except branch that records the error in place of the attributes.
UpdateExceptReplacing(ent, exc) ==
    [ent EXCEPT !.native_value = None, !.attrs = "last_update_error" :> exc]

\* Lines 300-303: the except branch.
UpdateExcept(ent, exc) ==
    [ent EXCEPT !.native_value = None,
                !.attrs = ("last_update_error" :> exc) @@ ent.attrs]

\* The run's outcome: the entity afterwards, the exception the except branch
\* caught (empty: none), the requests and their answers.
Fetched(held, f, tokReqs, tokResps) ==
    [ent |-> IF f.raised THEN UpdateExcept(held, f.err) ELSE f.val,
     err |-> f.err, reqs |-> tokReqs \o f.reqs, resps |-> tokResps \o f.resps]
TokenAnswered(ent, tokR, tokReq, tokResp, hsm, c, dt, plan, ep) ==
    IF tokR.raised
    THEN [ent |-> UpdateExcept(ent, tokR.err), err |-> tokR.err,
          reqs |-> <<tokReq>>, resps |-> <<Envelope(tokResp)>>]
    ELSE Fetched([ent EXCEPT !.token = tokR.val],
                 UpdateFetch([ent EXCEPT !.token = tokR.val], tokR.val, hsm, c, dt, plan, 2, ep),
                 <<tokReq>>, <<Envelope(tokResp)>>)
TokenAsked(ent, tokResp, hsm, c, dt, plan, ep) ==
    TokenAnswered(ent, _async_get_token(tokResp), Request("token", 0, <<>>), tokResp,
                  hsm, c, dt, plan, ep)

\* Lines 217-303: async_update of one entity. A token is requested only when
\* the entity holds none; the one it holds is used as it is.
AsyncUpdate(ent, hsm, dt, plan, ep, tseq) ==
    IF ent.token = 0
    THEN TokenAsked(ent, RespFor(plan, 1, tseq + 1), hsm, Clock(dt), dt, plan, ep)
    ELSE Fetched(ent, UpdateFetch(ent, ent.token, hsm, Clock(dt), dt, plan, 1, ep),
                 <<>>, <<>>)

\* One run of async_update of the entity at place e of the host's list.
Update(e) ==
    /\ pc \in {"idle", "done"}
    /\ nUpdates < MaxUpdates
    /\ e \in DOMAIN published
    /\ \E plan \in Plans(MaxOpRequests) :
        \E u \in {AsyncUpdate(published[e], HISTORY_START_MONTH, now, plan, epoch, tokenSeq)} :
        /\ published' = [published EXCEPT ![e] = u.ent]
        /\ tokenSeq' = IF u.ent.token # published[e].token THEN tokenSeq + 1 ELSE tokenSeq
        /\ lastOp' = [kind |-> "update", target |-> e, held |-> published[e].token,
                      reqs |-> u.reqs, resps |-> u.resps, caught |-> u.err]
    /\ nUpdates' = nUpdates + 1
    /\ UNCHANGED <<now, epoch, HISTORY_START_MONTH, cacheFile, dailyCacheFile, pc, cycles,
                   result, error, token, stations, clk, tasks, entities, cache, daily_cache,
                   device_sns, requests, lastResp, buttons, buttonsUp, nPresses, elapsed,
                   atStart, projVars>>

\* ---------------------------------------------------------------- button.py
\* st.get("id") or st.get("stationId") of every station, None included
\* (line 49).
RECURSIVE ButtonStationIds(_)
ButtonStationIds(sts) ==
    IF sts = <<>> THEN <<>>
    ELSE <<StationId(Head(sts))>> \o ButtonStationIds(Tail(sts))

\* The ids among them the provider knows, for its answer.
RECURSIVE KnownIds(_)
KnownIds(ids) == IF ids = <<>> THEN <<>> ELSE Head(ids) \o KnownIds(Tail(ids))

\* DeyeSolarSellButton.__init__ (lines 79-91).
DeyeSolarSellButton(device_sn, action_name, is_enable) ==
    [device_sn |-> device_sn, is_enable |-> is_enable,
     name |-> <<"Deye Solar Sell", action_name>>,
     unique_id |-> device_sn \o <<"solar", "sell", IF is_enable THEN "enable" ELSE "disable", "btn">>]

\* Lines 58-71: an Enable and a Disable button per INVERTER device.
RECURSIVE ButtonsOf(_)
ButtonsOf(devices_data) ==
    IF devices_data = <<>> THEN <<>>
    ELSE (IF Head(devices_data).deviceType = "INVERTER"
          THEN <<DeyeSolarSellButton(Head(devices_data).deviceSn, "Enable", TRUE),
                 DeyeSolarSellButton(Head(devices_data).deviceSn, "Disable", FALSE)>>
          ELSE <<>>)
         \o ButtonsOf(Tail(devices_data))

\* Lines 37-76 of the button platform's async_setup_entry: the token, the
\* station list and the device list, neither list's success flag read; an
\* exception is logged and the entities built so far, none, are handed over.
ButtonSetupRun(sts, plan, tseq) ==
    LET tokResp == RespFor(plan, 1, tseq + 1)
        tokR == async_get_token(tokResp)
        tok == IF tokR.raised THEN 0 ELSE tokR.val
        stResp == RespFor(plan, 2, sts)
        stReq == Request("station_list", tok, <<>>)
        stations_data == DataOrEmpty(stResp)
        station_ids == ButtonStationIds(stations_data)
        devResp == RespFor(plan, 3, DevicesOf(KnownIds(station_ids)))
        devReq == Request("device_list", tok, station_ids)
        tokReq == Request("token", 0, <<>>)
    IN  IF tokR.raised
        THEN [buttons |-> <<>>, caught |-> tokR.err, reqs |-> <<tokReq>>,
              resps |-> <<Envelope(tokResp)>>]
        ELSE IF stResp.status >= 400
        THEN [buttons |-> <<>>, caught |-> HttpError(stResp), reqs |-> <<tokReq, stReq>>,
              resps |-> <<Envelope(tokResp), Envelope(stResp)>>]
        ELSE IF station_ids = <<>>
        THEN [buttons |-> <<>>, caught |-> <<>>, reqs |-> <<tokReq, stReq>>,
              resps |-> <<Envelope(tokResp), Envelope(stResp)>>]
        ELSE IF devResp.status >= 400
        THEN [buttons |-> <<>>, caught |-> HttpError(devResp),
              reqs |-> <<tokReq, stReq, devReq>>,
              resps |-> <<Envelope(tokResp), Envelope(stResp), Envelope(devResp)>>]
        ELSE [buttons |-> ButtonsOf(DataOrEmpty(devResp)), caught |-> <<>>,
              reqs |-> <<tokReq, stReq, devReq>>,
              resps |-> <<Envelope(tokResp), Envelope(stResp), Envelope(devResp)>>]

\* The button platform's async_setup_entry, run once.
ButtonSetup ==
    /\ pc \in {"idle", "done"}
    /\ ~buttonsUp
    /\ \E sts \in StationLists, plan \in Plans(3) :
        LET b == ButtonSetupRun(sts, plan, tokenSeq) IN
        /\ buttons' = b.buttons
        /\ tokenSeq' = IF Len(b.reqs) > 1 THEN tokenSeq + 1 ELSE tokenSeq
        /\ lastOp' = [kind |-> "button_setup", target |-> 0, held |-> 0,
                      reqs |-> b.reqs, resps |-> b.resps, caught |-> b.caught]
    /\ buttonsUp' = TRUE
    /\ UNCHANGED <<now, epoch, HISTORY_START_MONTH, cacheFile, dailyCacheFile, published, pc,
                   cycles, result, error, token, stations, clk, tasks, entities, cache,
                   daily_cache, device_sns, requests, lastResp, nUpdates, nPresses, elapsed,
                   atStart, projVars>>

\* DeyeSolarSellButton.async_press (lines 102-121): a token, then the control
\* command; val is the control call's return value.
AsyncPress(button, plan, tseq) ==
    LET tokResp == RespFor(plan, 1, tseq + 1)
        tokR == async_get_token(tokResp)
        tokReq == Request("token", 0, <<>>)
        ctlResp == RespFor(plan, 2, <<>>)
        ctlR == async_control_solar_sell(ctlResp)
    IN  IF tokR.raised
        THEN Failed(tokR.err, <<tokReq>>, <<Envelope(tokResp)>>)
        ELSE LET ctlReq == Request("control", tokR.val,
                                   <<IF button.is_enable THEN "on" ELSE "off">>
                                   \o button.device_sn)
             IN  [raised |-> ctlR.raised, val |-> ctlR.val, err |-> ctlR.err,
                  reqs |-> <<tokReq, ctlReq>>,
                  resps |-> <<Envelope(tokResp), Envelope(ctlResp)>>]

\* Lines 120-121: the except branch logs whatever the try block raised, and
\* async_press returns None to the host in either case.
PressReturn(r) == Ret(<<>>)

\* One press of the button at place b of the host's list.
Press(b) ==
    /\ pc \in {"idle", "done"}
    /\ nPresses < MaxPresses
    /\ b \in DOMAIN buttons
    /\ \E plan \in Plans(2) :
        LET r == AsyncPress(buttons[b], plan, tokenSeq) IN
        /\ tokenSeq' = IF Len(r.reqs) > 1 THEN tokenSeq + 1 ELSE tokenSeq
        /\ lastOp' = [kind |-> "press", target |-> b, held |-> 0,
                      reqs |-> r.reqs, resps |-> r.resps, caught |-> r.err,
                      outcome |-> PressReturn(r)]
    /\ nPresses' = nPresses + 1
    /\ UNCHANGED <<now, epoch, HISTORY_START_MONTH, cacheFile, dailyCacheFile, published, pc,
                   cycles, result, error, token, stations, clk, tasks, entities, cache,
                   daily_cache, device_sns, requests, lastResp, buttons, buttonsUp, nUpdates,
                   elapsed, atStart, projVars>>

\* ------------------------------------------------------------- environment
\* Time passes at the provider: the lease of every token issued so far ends.
LeaseElapses ==
    /\ pc \in {"idle", "done"}
    /\ elapsed < tokenSeq
    /\ elapsed' = tokenSeq
    /\ UNCHANGED <<now, epoch, tokenSeq, HISTORY_START_MONTH, cacheFile, dailyCacheFile,
                   published, pc, cycles, result, error, token, stations, clk, tasks,
                   entities, cache, daily_cache, device_sns, requests, lastResp, buttons,
                   buttonsUp, nUpdates, nPresses, lastOp, atStart, projVars>>

\* entry.data[CONF_START_MONTH] of a second configuration entry.
OtherEntryStartMonth == <<"2024", "02">>

\* async_setup_entry of the second configuration entry, whose account has no
\* station: it sets the module global (lines 311-313), deletes both cache
\* files (lines 322-323), gets a token and an empty station list and returns
\* (lines 332-337). Its requests are not those of the first entry's cycle.
OtherEntrySetup ==
    /\ HISTORY_START_MONTH # OtherEntryStartMonth
    /\ HISTORY_START_MONTH' = OtherEntryStartMonth
    /\ cacheFile' = None
    /\ dailyCacheFile' = None
    /\ tokenSeq' = tokenSeq + 1
    /\ UNCHANGED <<now, epoch, published, pc, cycles, result, error, token, stations, clk,
                   tasks, entities, cache, daily_cache, device_sns, requests, lastResp,
                   opVars, atStart, projVars>>

\* The provider's readings change.
ProviderChanges ==
    /\ pc \in {"idle", "done"}
    /\ epoch < MaxEpoch
    /\ epoch' = epoch + 1
    /\ UNCHANGED <<now, tokenSeq, HISTORY_START_MONTH, cacheFile, dailyCacheFile,
                   published, pc, cycles, result, error, token, stations, clk, tasks,
                   entities, cache, daily_cache, device_sns, requests, lastResp, buttons,
                   buttonsUp, nUpdates, nPresses, lastOp, elapsed, atStart, projVars>>

Setup ==
    \/ SetupStart
    \/ SetupToken
    \/ SetupStations
    \/ \E i \in 1 .. MaxStations : TaskStart(i) \/ TaskHistory(i) \/ TaskDaily(i)
    \/ SetupJoin
    \/ SetupDeviceList
    \/ SetupDeviceStatus
    \/ SetupSave

Next == Setup
Spec == Init /\ [][Next]_vars

\* The platform once set up without a failure, then its entities and buttons
\* at work.
NoFailure ==
    /\ result # "failed"
    /\ \A i \in DOMAIN tasks : tasks[i].pc # "failed"
SetupOnce == Setup /\ cycles' = 1 /\ NoFailure'
NextEntity ==
    \/ SetupOnce
    \/ \E e \in DOMAIN published : Update(e)
    \/ LeaseElapses
    \/ ProviderChanges
SpecEntity == Init /\ [][NextEntity]_vars

\* The platform set up once for one entry, its entities updated, and a second
\* entry set up at any moment of it.
NextEntries ==
    \/ SetupOnce
    \/ \E e \in DOMAIN published : Update(e)
    \/ OtherEntrySetup
SpecEntries == Init /\ [][NextEntries]_vars

\* The button platform set up, then its buttons pressed.
NextButton ==
    \/ ButtonSetup
    \/ \E b \in DOMAIN buttons : Press(b)
SpecButton == Init /\ [][NextButton]_vars

\* ------------------------------------------------------ the walk by itself
\* The monthly history walk of one station, for any configured start month
\* and any date: async_setup_entry stands at the fan-out with station 101,
\* as after SetupStart, SetupToken and SetupStations with that start month
\* in the configuration entry.
WalkDates ==
    {[y |-> 2024, m |-> 3, d |-> 15], [y |-> 2024, m |-> 2, d |-> 10],
     [y |-> 2024, m |-> 12, d |-> 31]}
WalkStarts == {ym \in Months : YM(2024, 12) - MaxWalk < ym /\ ym <= YM(2024, 4)}

InitWalk ==
    /\ now \in WalkDates
    /\ HISTORY_START_MONTH \in {StrfMonth(ym) : ym \in WalkStarts}
    /\ epoch = 0
    /\ tokenSeq = 1
    /\ cacheFile = None
    /\ dailyCacheFile = None
    /\ published = <<>>
    /\ pc = "fanout"
    /\ cycles = 1
    /\ result = "none"
    /\ error = <<>>
    /\ token = 1
    /\ stations = <<S101>>
    /\ clk = Clock(now)
    /\ tasks = <<NewTask>>
    /\ entities = <<>>
    /\ cache = <<>>
    /\ daily_cache = <<>>
    /\ device_sns = <<>>
    /\ requests = SetToBag({Request("token", 0, <<>>), Request("station_list", 1, <<>>)})
    /\ lastResp = Envelope(OkResp(<<S101>>))
    /\ buttons = <<>>
    /\ buttonsUp = FALSE
    /\ nUpdates = 0
    /\ nPresses = 0
    /\ lastOp = NoOp
    /\ elapsed = 0
    /\ atStart = <<None, None, <<>>>>
    /\ snapshot = NoSnapshot
    /\ projected = None
NextWalk == TaskStart(1) \/ TaskHistory(1)
SpecWalk == InitWalk /\ [][NextWalk]_vars

\* The coroutine is scheduled again whenever its request has been answered.
SpecWalkFair == SpecWalk /\ WF_vars(NextWalk)

\* ------------------------------------------------ the projection by itself
\* The entity-building lines of process_station and of the device loop,
\* applied to fetched data drawn from small sets, at any of a few dates.
SeqsUpTo(S, n) == UNION {[1 .. k -> S] : k \in 0 .. n}

HistoryRecords ==
    {[year |-> 2024, month |-> 2, generationValue |-> 20, consumptionValue |-> 7],
     [year |-> 2024, month |-> 3, generationValue |-> 30],
     [year |-> 2024, month |-> 3, consumptionValue |-> 9],
     [year |-> 2024, month |-> 2, generationValue |-> 25]}
Histories == SeqsUpTo(HistoryRecords, MaxRecords)

DailyHistories ==
    {<<>>,
     <<[date |-> <<"2024", "03", "01">>, data |-> [generationValue |-> 3]]>>,
     <<[date |-> <<"2024", "02", "29">>,
        data |-> [generationValue |-> 2, consumptionValue |-> 4]],
       [date |-> <<"2024", "03", "01">>, data |-> [generationValue |-> 3]]>>}

DeviceData(sn, dataList) ==
    [deviceSn |-> sn, deviceType |-> "INVERTER", deviceState |-> 1,
     collectionTime |-> 1700, dataList |-> dataList]
DeviceDataLists ==
    {<<>>,
     <<DeviceData(Some(<<"X", "2">>), <<[key |-> <<"Power">>, value |-> 60, unit |-> "W"]>>)>>,
     <<DeviceData(Some(<<"X", "2">>), <<[key |-> <<"Power">>, value |-> 60, unit |-> "W"]>>),
       DeviceData(Some(<<"X">>), <<[key |-> <<"2", "Power">>, value |-> 61, unit |-> "W"]>>)>>,
     <<DeviceData(Some(<<"SN1">>), <<[key |-> <<"Power">>, value |-> 40, unit |-> "W"],
                                     [key |-> <<"Power">>, value |-> 41, unit |-> "W"]>>)>>,
     <<DeviceData(None, <<[key |-> <<"Power">>, value |-> 40, unit |-> "W"]>>)>>}

Snapshots ==
    [station_id : {"101", "102"}, history : Histories, daily_history : DailyHistories,
     device_data_list : DeviceDataLists]

ProjectDates ==
    {[y |-> 2024, m |-> 3, d |-> 1], [y |-> 2024, m |-> 3, d |-> 2],
     [y |-> 2024, m |-> 4, d |-> 1]}

\* Lines 384-498 and 509-537: the entities of one station's data, then the
\* device entities.
Projection(snap, c) ==
    RawSensors(snap.station_id, snap.history)
        \o MonthlySensors(snap.station_id, snap.history, c)
        \o DailySensors(snap.station_id, snap.daily_history, c)
        \o DeviceSensors(snap.device_data_list)

Project(dt) ==
    /\ now' = dt
    /\ projected' = Some(Projection(snapshot, Clock(dt)))
    /\ UNCHANGED <<epoch, tokenSeq, HISTORY_START_MONTH, cacheFile, dailyCacheFile,
                   published, pc, cycles, result, error, token, stations, clk, tasks,
                   entities, cache, daily_cache, device_sns, requests, lastResp,
                   opVars, atStart, snapshot>>

InitProject ==
    /\ snapshot \in Snapshots
    /\ projected = None
    /\ now = [y |-> 2024, m |-> 3, d |-> 1]
    /\ epoch = 0
    /\ tokenSeq = 0
    /\ HISTORY_START_MONTH = <<"2024", "01">>
    /\ cacheFile = None
    /\ dailyCacheFile = None
    /\ published = <<>>
    /\ pc = "idle"
    /\ cycles = 0
    /\ result = "none"
    /\ error = <<>>
    /\ token = 0
    /\ stations = <<>>
    /\ clk = Clock(now)
    /\ tasks = <<>>
    /\ entities = <<>>
    /\ cache = <<>>
    /\ daily_cache = <<>>
    /\ device_sns = <<>>
    /\ requests = EmptyBag
    /\ lastResp = NoResp
    /\ buttons = <<>>
    /\ buttonsUp = FALSE
    /\ nUpdates = 0
    /\ nPresses = 0
    /\ lastOp = NoOp
    /\ elapsed = 0
    /\ atStart = <<None, None, <<>>>>
NextProject == \E dt \in ProjectDates : Project(dt)
SpecProject == InitProject /\ [][NextProject]_vars

\* ------------------------------------------------------------------ claims
Range(s) == {s[i] : i \in DOMAIN s}

\* The operations the current run of the sensor platform's setup has asked
\* the provider for.
Asked == {r.op : r \in BagToSet(requests)}

\* The station entities process_station builds from what the run put into
\* cache and daily_cache for a station.
StationEntities(sid) ==
    (IF sid \in DOMAIN cache
     THEN RawSensors(sid, cache[sid]) \o MonthlySensors(sid, cache[sid], clk)
     ELSE <<>>)
    \o (IF sid \in DOMAIN daily_cache THEN DailySensors(sid, daily_cache[sid], clk) ELSE <<>>)

\* C1: when the token endpoint answers success=false with message m, the
\* token call raises an error whose text contains m, the setup cycle ends as
\* failed, and the token request is the only request of that cycle.
C1_TokenRefused ==
    [][(pc = "token" /\ pc' # "token" /\ lastResp'.status = 200 /\ ~lastResp'.success)
       => /\ pc' = "done"
          /\ result' = "failed"
          /\ error'[1] = "Token request failed"
          /\ lastResp'.msg \in Range(error')
          /\ {r.op : r \in BagToSet(requests')} = {"token"}]_vars

C1_Witness ==
    /\ pc = "done"
    /\ result = "failed"
    /\ lastResp = [status |-> 200, success |-> FALSE, msg |-> "bad token"]
    /\ error = <<"Token request failed", "bad token">>
    /\ Asked = {"token"}

\* C2: an update whose fetch raises leaves the entity's value as it was
\* before the update, and the entity stays in the host's list.
C2_ValueRetained ==
    [][(nUpdates' = nUpdates + 1 /\ lastOp'.caught # <<>>)
       => /\ Len(published') = Len(published)
          /\ published'[lastOp'.target].native_value
                 = published[lastOp'.target].native_value]_vars

\* C3: in every cycle whose stations were processed concurrently, every
\* station whose task did not raise has run to completion and all of its
\* entities are in the list the cycle published, whatever the other tasks did.
C3_SiblingsPublished ==
    (pc = "done" /\ tasks # <<>>)
        => \A i \in DOMAIN tasks :
            /\ tasks[i].pc \in {"done", "failed", "skipped"}
            /\ tasks[i].pc = "done"
                => /\ result = "success"
                   /\ Range(StationEntities(tasks[i].station_id[1])) \subseteq Range(published)

\* C4: when a station's monthly history was fetched and one of its daily
\* fetches raised, the entity list after the join still holds the station's
\* monthly entities, each tagged with the error.
C4_PartialKept ==
    pc = "devices"
        => \A i \in DOMAIN tasks :
            (tasks[i].pc = "failed" /\ tasks[i].station_id[1] \in DOMAIN cache)
                => \A ent \in Range(StationEntities(tasks[i].station_id[1])) :
                    \E k \in DOMAIN entities :
                        /\ entities[k].unique_id = ent.unique_id
                        /\ entities[k].native_value = ent.native_value
                        /\ "last_update_error" \in DOMAIN entities[k].attrs

\* C5: a cycle that reached the device fetch is not reported as failed, and
\* the station entities it had produced are published, also when the
\* device-list or the device-status fetch failed.
C5_DeviceFailureCaught ==
    (pc = "done" /\ "device_list" \in Asked)
        => /\ result # "failed"
           /\ Range(entities) \subseteq Range(published)

\* A station's task raised in its history walk: nothing was put into cache
\* for the station.
HistoryRaised(i) ==
    /\ tasks[i].pc = "failed"
    /\ tasks[i].station_id[1] \notin DOMAIN cache

\* The telemetry the provider reports for the devices the cycle asked for.
ReportedDevices == StatusOf(FirstN(device_sns, DEVICE_LIMIT), epoch)

\* C6: when a station's history fetch raised and the device-list and
\* device-status fetches succeeded, the published list holds exactly one
\* device entity for every telemetry item of every reported device, with the
\* item's value.
C6_DevicesDespiteHistory ==
    (/\ pc = "done"
     /\ "device_status" \in Asked
     /\ lastResp.success
     /\ \E i \in DOMAIN tasks : HistoryRaised(i))
        => /\ result = "success"
           /\ \A d \in Range(ReportedDevices) : \A data \in Range(d.dataList) :
                /\ Cardinality({k \in DOMAIN published :
                       published[k].unique_id = <<"device">> \o d.deviceSn[1] \o data.key}) = 1
                /\ \E k \in DOMAIN published :
                       /\ published[k].unique_id = <<"device">> \o d.deviceSn[1] \o data.key
                       /\ published[k].native_value = Some(data.value)

C6_Witness ==
    /\ pc = "done"
    /\ result = "success"
    /\ "device_status" \in Asked
    /\ lastResp.success
    /\ Len(tasks) = 2
    /\ HistoryRaised(1)
    /\ tasks[2].pc = "done"
    /\ Len(ReportedDevices) = 2
    /\ \E k \in DOMAIN published : published[k].unique_id = <<"device", "SN1", "SOC">>
    /\ \E k \in DOMAIN published : published[k].unique_id = <<"device", "X", "2", "Power">>

\* C7: a cycle that failed at the token or at the station list is reported
\* as failed and leaves both stored history files and the published entities
\* as they were when the cycle began.
C7_SnapshotKept ==
    (pc = "done" /\ result = "failed" /\ Asked \subseteq {"token", "station_list"})
        => <<cacheFile, dailyCacheFile, published>> = atStart

\* C8: when the station-list call returns an empty list, the cycle's result
\* is failed, and nothing but the token and the station list was requested.
C8_EmptyListFails ==
    (pc = "done" /\ token # 0 /\ stations = <<>> /\ "station_list" \in Asked
     /\ lastResp.success)
        => /\ result = "failed"
           /\ Asked = {"token", "station_list"}

\* Whether a run asked the provider for a token.
TokenRequested(op) == \E k \in DOMAIN op.reqs : op.reqs[k].op = "token"

\* C9: an update requests a token exactly when its entity holds none or the
\* lease of the one it holds is over: a token within its lease is reused, and
\* the first update after the lease ended requests a new one.
C9_TokenLease ==
    [][nUpdates' = nUpdates + 1
       => (TokenRequested(lastOp')
              <=> (lastOp'.held = 0 \/ lastOp'.held <= elapsed))]_vars

\* C10: whichever operation of the setup cycle gets a success=false body
\* with HTTP status 200, the call raises an error that carries the
\* provider's message.
C10_EnvelopeUnwrapped ==
    [][/\ (/\ pc \in {"token", "stations", "devices", "status"}
           /\ requests' # requests
           /\ lastResp'.status = 200 /\ ~lastResp'.success)
          => (result' = "failed" /\ lastResp'.msg \in Range(error'))
       /\ \A i \in DOMAIN tasks :
          (/\ pc = "fanout" /\ pc' = "fanout"
           /\ tasks[i].pc \in {"history", "daily"}
           /\ tasks'[i] # tasks[i]
           /\ tasks'[i].resp.status = 200 /\ ~tasks'[i].resp.success)
          => (tasks'[i].pc = "failed" /\ tasks'[i].resp.msg \in Range(tasks'[i].err))]_vars

\* The months of the walk: from the configured start to the current month.
WalkStart == StrpMonth(HISTORY_START_MONTH)[1]
WalkEnd == YM(now.y, now.m)

\* The walk of task 1 has returned its record list.
WalkReturned == tasks # <<>> /\ tasks[1].pc = "daily"

\* The months of the records the walk returned, in list order.
WalkKeys == [k \in DOMAIN tasks[1].items |-> YM(tasks[1].items[k].year, tasks[1].items[k].month)]

\* C11: when the walk from start_month to the current month returns, the
\* (year, month) keys of its records are exactly the months of that range
\* the provider holds data for, each once.
C11_WalkCovers ==
    (WalkReturned /\ WalkStart <= WalkEnd)
        => /\ Range(WalkKeys)
                = {ym \in WalkStart .. WalkEnd :
                      ~IsNone(ProviderMonthly(tasks[1].station_id[1], ym, epoch))}
           /\ Cardinality(Range(WalkKeys)) = Len(WalkKeys)

C11_Witness ==
    /\ WalkReturned
    /\ HISTORY_START_MONTH = <<"2023", "01">>
    /\ now = [y |-> 2024, m |-> 3, d |-> 15]
    /\ WalkKeys = <<YM(2023, 12), YM(2024, 2), YM(2024, 3)>>

\* The windows of the history requests issued so far for task 1's station,
\* as pairs of months read back from startAt and endAt.
Windows ==
    {<<StrpMonth(r.arg[2])[1], StrpMonth(r.arg[3])[1]>> :
        r \in {q \in BagToSet(requests) : q.op = "history"}}

\* C12: the request windows of the walk: one starts at start_month, each
\* spans at most 12 months and ends no later than the current month, every
\* other one starts one month after another one's end, no two share a month,
\* no window is requested twice, and when the walk has returned the windows
\* cover every month from start_month to the current month.
C12_WindowsChain ==
    /\ \A r \in BagToSet(requests) : r.op = "history" => CopiesIn(r, requests) = 1
    /\ Windows # {} => \E w \in Windows : w[1] = WalkStart
    /\ \A w \in Windows :
        /\ w[1] <= w[2] /\ w[2] - w[1] + 1 <= 12 /\ w[2] <= WalkEnd
        /\ w[1] # WalkStart => \E v \in Windows : v[2] + 1 = w[1]
        /\ \A v \in Windows : v # w => (v[2] < w[1] \/ w[2] < v[1])
    /\ (WalkReturned /\ WalkStart <= WalkEnd)
        => \A ym \in WalkStart .. WalkEnd :
               Cardinality({w \in Windows : w[1] <= ym /\ ym <= w[2]}) = 1

C12_Witness ==
    /\ WalkReturned
    /\ HISTORY_START_MONTH = <<"2024", "01">>
    /\ now = [y |-> 2024, m |-> 3, d |-> 15]
    /\ Windows = {<<YM(2024, 1), YM(2024, 3)>>}

\* The entity list of the last projection (empty before the first).
Projected == IF IsNone(projected) THEN <<>> ELSE projected[1]

\* C13: no two entities of one projected list share a unique_id.
C13_UniqueIds ==
    \A i, j \in DOMAIN Projected :
        i # j => Projected[i].unique_id # Projected[j].unique_id

\* The entities built from history record item: they carry it as attributes.
BuiltFrom(item) == {k \in DOMAIN Projected : Projected[k].attrs = item}

\* C14: the unique_id of the entity built from a history record is the
\* station id, the word raw, the record's year and its zero-padded month,
\* whatever else the record, the history or the date holds.
C14_RawIdStable ==
    \A item \in Range(snapshot.history) : \A k \in BuiltFrom(item) :
        Projected[k].unique_id
            = <<snapshot.station_id, "raw", ToString(item.year), Pad2(item.month)>>

C14_Witness ==
    /\ now = [y |-> 2024, m |-> 4, d |-> 1]
    /\ Len(snapshot.history) = 2
    /\ snapshot.history[2].month = 2
    /\ snapshot.history[2].generationValue = 25
    /\ \E k \in BuiltFrom(snapshot.history[2]) :
           Projected[k].unique_id = <<"102", "raw", "2024", "02">>

\* C15: projecting the same fetched data again, at whatever date, gives the
\* entity list the previous projection gave.
C15_SameProjection ==
    [][(~IsNone(projected) /\ snapshot' = snapshot) => projected' = projected]_vars

\* C18: every history record with a generationValue has exactly one entity
\* built from it, holding that value; a record without one has none.
C18_OnePerRecord ==
    ~IsNone(projected) =>
        \A item \in Range(snapshot.history) :
            /\ Cardinality(BuiltFrom(item))
                   = IF IsNone(Get(item, "generationValue")) THEN 0
                     ELSE Cardinality({i \in DOMAIN snapshot.history :
                                          snapshot.history[i] = item})
            /\ \A k \in BuiltFrom(item) :
                   Projected[k].native_value = Some(item.generationValue)

C18_Witness ==
    /\ ~IsNone(projected)
    /\ snapshot.history
           = <<[year |-> 2024, month |-> 3, consumptionValue |-> 9],
               [year |-> 2024, month |-> 2, generationValue |-> 20, consumptionValue |-> 7]>>
    /\ Cardinality({k \in DOMAIN Projected : Projected[k].unique_id[2] = "raw"}) = 1
    /\ \E k \in DOMAIN Projected :
           /\ Projected[k].unique_id = <<"101", "raw", "2024", "02">>
           /\ Projected[k].native_value = Some(20)

\* An update has just run without raising, or has just raised.
UpdateSucceeded == nUpdates' = nUpdates + 1 /\ lastOp'.caught = <<>>
UpdateRaised == nUpdates' = nUpdates + 1 /\ lastOp'.caught # <<>>

\* The provider's record of a station for the month of date dt, and for the
\* month before it.
RecordOfMonth(sid, dt) == ProviderMonthly(sid, YM(dt.y, dt.m), epoch)
RecordOfLastMonth(sid, dt) == ProviderMonthly(sid, PrevMonth(YM(dt.y, dt.m)), epoch)

\* C16: after an update that did not raise, a current-month entity holds its
\* metric of the provider's record for the month of the update, and a
\* last-month entity that of the record for the month before.
C16_MonthlyFollows ==
    [][UpdateSucceeded
       => \A sid \in {"101", "102"} : \A metric \in Range(_METRICS) :
           /\ (/\ published[lastOp'.target].unique_id = <<sid, metric.key, "current", "month">>
               /\ ~IsNone(ItemGet(RecordOfMonth(sid, now), metric.key)))
              => published'[lastOp'.target].native_value
                     = ItemGet(RecordOfMonth(sid, now), metric.key)
           /\ (/\ published[lastOp'.target].unique_id = <<sid, metric.key, "last", "month">>
               /\ ~IsNone(ItemGet(RecordOfLastMonth(sid, now), metric.key)))
              => published'[lastOp'.target].native_value
                     = ItemGet(RecordOfLastMonth(sid, now), metric.key)]_vars

\* The date a relative-day label stands for on date dt.
DayOf(label, dt) ==
    IF label = <<"today">> THEN dt
    ELSE IF label = <<"yesterday">> THEN PrevDay(dt)
    ELSE PrevDay(PrevDay(dt))

\* C17: after an update that did not raise, the daily entity of a station,
\* a metric and one of the labels today, yesterday, day_before_yesterday
\* holds that metric of the provider's daily record of the label's date.
C17_DailyFollows ==
    [][UpdateSucceeded
       => \A sid \in {"101", "102"} : \A metric \in Range(_DAILY_METRICS) :
          \A label \in {<<"today">>, <<"yesterday">>, <<"day", "before", "yesterday">>} :
              (/\ published[lastOp'.target].unique_id = <<sid, metric.key>> \o label
               /\ ProviderDaily(sid, DayOf(label, now), epoch) # <<>>
               /\ ~IsNone(Get(ProviderDaily(sid, DayOf(label, now), epoch)[1], metric.key)))
              => published'[lastOp'.target].native_value
                     = Get(ProviderDaily(sid, DayOf(label, now), epoch)[1], metric.key)]_vars

\* The serial numbers of the provider's devices.
ProviderSns == {d.deviceSn : d \in Range(ProviderDevices("101")) \cup Range(ProviderDevices("102"))}

\* C19: after an update that did not raise, the entity of a device and a
\* telemetry key holds the value and unit the provider now reports for that
\* key, with the device's serial, type, state and collection time as
\* attributes.
C19_DeviceFollows ==
    [][UpdateSucceeded
       => \A sn \in ProviderSns : \A d \in Range(ProviderStatus(sn, epoch)) :
          \A data \in Range(d.dataList) :
              published[lastOp'.target].unique_id = <<"device">> \o sn \o data.key
              => /\ published'[lastOp'.target].native_value = Some(data.value)
                 /\ published'[lastOp'.target].unit = data.unit
                 /\ published'[lastOp'.target].attrs
                        = [device_sn |-> sn, device_type |-> d.deviceType,
                           device_state |-> d.deviceState,
                           collection_time |-> d.collectionTime]]_vars

\* C20 as stated: after an update that raised, the attributes hold the
\* error's message as last_update_error and every attribute the entity had
\* before, with its value.
C20_AttrsKept ==
    [][UpdateRaised
       => /\ "last_update_error" \in DOMAIN published'[lastOp'.target].attrs
          /\ published'[lastOp'.target].attrs["last_update_error"] = lastOp'.caught
          /\ \A k \in DOMAIN published[lastOp'.target].attrs :
                /\ k \in DOMAIN published'[lastOp'.target].attrs
                /\ published'[lastOp'.target].attrs[k]
                       = published[lastOp'.target].attrs[k]]_vars

\* C20: after an update that raised, the attributes hold the error's message
\* as last_update_error and every other attribute the entity had before,
\* with its value.
C20_OtherAttrsKept ==
    [][UpdateRaised
       => /\ "last_update_error" \in DOMAIN published'[lastOp'.target].attrs
          /\ published'[lastOp'.target].attrs["last_update_error"] = lastOp'.caught
          /\ \A k \in DOMAIN published[lastOp'.target].attrs \ {"last_update_error"} :
                /\ k \in DOMAIN published'[lastOp'.target].attrs
                /\ published'[lastOp'.target].attrs[k]
                       = published[lastOp'.target].attrs[k]]_vars

C20_Witness ==
    /\ lastOp.kind = "update"
    /\ lastOp.caught = <<"History request failed", "quota">>
    /\ published[lastOp.target].unique_id = <<"101", "raw", "2024", "02">>
    /\ DOMAIN published[lastOp.target].attrs
           = {"year", "month", "generationValue", "consumptionValue", "last_update_error"}
    /\ published[lastOp.target].attrs["last_update_error"] = lastOp.caught
    /\ published[lastOp.target].attrs["generationValue"] = 20

\* A request of the operation got a transport error or a success=false body.
RequestFailed(op) ==
    \E k \in DOMAIN op.resps : op.resps[k].status >= 400 \/ ~op.resps[k].success

\* C21: a button press whose token request or control request fails ends
\* with an error for its caller.
C21_PressFailureSurfaced ==
    [][(nPresses' = nPresses + 1 /\ RequestFailed(lastOp'))
       => lastOp'.outcome.raised]_vars

\* The ids of the cycle's stations that have one.
IdsOfStations == {StationId(stations[i])[1] : i \in {k \in DOMAIN stations : ~IsNone(StationId(stations[k]))}}

\* The cycle has a station record with neither id nor stationId, and its
\* tasks have been started.
HasIdlessStation ==
    /\ tasks # <<>>
    /\ \E i \in DOMAIN stations : IsNone(StationId(stations[i]))

\* C22: a station record without an id is skipped: its task neither raises
\* nor builds entities, every history and daily request is for a station that
\* has an id, the device-list request carries exactly the ids that exist, the
\* cycle fails only when one of its own requests failed, and after the join
\* every other station has been processed, its entities in the list when it
\* did not raise.
C22_IdlessSkipped ==
    HasIdlessStation =>
        /\ \A i \in DOMAIN tasks :
              (tasks[i].pc # "start" /\ IsNone(StationId(stations[i])))
                  => (tasks[i].pc = "skipped" /\ tasks[i].station_entities = <<>>)
        /\ \A r \in BagToSet(requests) :
              /\ r.op \in {"history", "daily"} => r.arg[1] \in IdsOfStations
              /\ r.op = "device_list"
                    => /\ Range(r.arg) = IdsOfStations
                       /\ Len(r.arg) = Cardinality(IdsOfStations)
        /\ (pc = "done" /\ result = "failed") => ~lastResp.success
        /\ pc \in {"devices", "status", "save"}
              => \A i \in DOMAIN tasks : ~IsNone(StationId(stations[i]))
                    => /\ tasks[i].pc \in {"done", "failed"}
                       /\ tasks[i].pc = "done"
                             => Range(StationEntities(tasks[i].station_id[1]))
                                    \subseteq Range(entities)

C22_Witness ==
    /\ pc = "done"
    /\ result = "success"
    /\ stations = <<S101, SBad>>
    /\ tasks[1].pc = "done"
    /\ tasks[2].pc = "skipped"
    /\ \E r \in BagToSet(requests) : r.op = "device_list" /\ r.arg = <<"101">>
    /\ \E k \in DOMAIN published : published[k].unique_id = <<"101", "raw", "2024", "03">>
    /\ \A r \in BagToSet(requests) : r.op \in {"history", "daily"} => r.arg[1] = "101"

\* The requests of one kind the cycle has issued, and how many they are.
RequestsOf(op) == {r \in BagToSet(requests) : r.op = op}
CountOf(op) == IF RequestsOf(op) = {} THEN 0 ELSE CopiesIn(CHOOSE r \in RequestsOf(op) : TRUE, requests)

\* The provider's devices of the cycle's stations.
DevicesOfStations == UNION {Range(ProviderDevices(sid)) : sid \in IdsOfStations}

\* C23: in a cycle the device list is requested at most once, with the ids
\* of the stations that have one; the serial numbers kept are those of the
\* INVERTER devices; the device status is requested at most once, for the
\* first 10 of the kept serial numbers in their order, and not at all when
\* none was kept.
C23_DevicesOnce ==
    /\ Cardinality(RequestsOf("device_list")) <= 1 /\ CountOf("device_list") <= 1
    /\ Cardinality(RequestsOf("device_status")) <= 1 /\ CountOf("device_status") <= 1
    /\ \A r \in RequestsOf("device_list") :
          Range(r.arg) = IdsOfStations /\ Len(r.arg) = Cardinality(IdsOfStations)
    /\ (pc \in {"status", "save"} /\ RequestsOf("device_list") # {})
          => Range(device_sns) = {d.deviceSn : d \in {x \in DevicesOfStations : x.deviceType = "INVERTER"}}
    /\ \A r \in RequestsOf("device_status") :
          /\ 1 <= Len(r.arg) /\ Len(r.arg) <= 10 /\ Len(r.arg) <= Len(device_sns)
          /\ Len(r.arg) < 10 => Len(r.arg) = Len(device_sns)
          /\ \A k \in DOMAIN r.arg : r.arg[k] = device_sns[k]
    /\ (pc \in {"save", "done"} /\ device_sns = <<>>) => RequestsOf("device_status") = {}

C23_Witness ==
    /\ pc = "done"
    /\ stations = <<S101, S102>>
    /\ Len(device_sns) = MaxSpare + 2
    /\ device_sns[1] = <<"SN1">>
    /\ device_sns[2] = <<"X", "2">>
    /\ \E r \in RequestsOf("device_status") : r.arg = SubSeq(device_sns, 1, 10)
    /\ CountOf("device_list") = 1

\* C24: in a cycle the token is requested at most once, no station task
\* has started and no other request has gone out before it was obtained, and
\* every other request of the cycle carries that one token.
C24_OneTokenPerCycle ==
    /\ Cardinality(RequestsOf("token")) <= 1 /\ CountOf("token") <= 1
    /\ (pc \in {"stations", "fanout", "devices", "status", "save"}
        \/ \E i \in DOMAIN tasks : tasks[i].pc # "start")
          => (CountOf("token") = 1 /\ token # 0)
    /\ \A r \in BagToSet(requests) :
          r.op # "token" => (CountOf("token") = 1 /\ r.token = token /\ r.token # 0)

C24_Witness ==
    /\ pc = "done"
    /\ result = "success"
    /\ cycles = 2
    /\ token = 2
    /\ Len(stations) = 2
    /\ Asked = {"token", "station_list", "history", "daily", "device_list", "device_status"}
    /\ \A r \in BagToSet(requests) : r.op # "token" => r.token = 2

\* The walk of task 1 is over: it has returned or raised.
WalkOver == tasks # <<>> /\ tasks[1].pc \in {"daily", "failed"}

\* The chunk requests a walk over the months WalkStart .. WalkEnd needs.
ChunksNeeded ==
    IF WalkStart > WalkEnd THEN 0 ELSE (WalkEnd - WalkStart + 1 + 11) \div 12

\* No chunk request was issued twice, there are never more than the walk
\* needs, and a walk that returned has issued all of them; a walk from a
\* start month after the current one returns the empty list.
WalkRequestCount ==
    /\ \A r \in RequestsOf("history") : CopiesIn(r, requests) = 1
    /\ Cardinality(RequestsOf("history")) <= ChunksNeeded
    /\ WalkReturned => Cardinality(RequestsOf("history")) = ChunksNeeded
    /\ (WalkReturned /\ WalkStart > WalkEnd) => tasks[1].items = <<>>

\* C25: the walk ends, having issued each chunk request once: ceil(n/12)
\* requests for the n months from start_month to the current month when all
\* succeed, none when start_month is later; a failed chunk request makes the
\* walk raise in that step, and a walk that raised issues no request.
C25_WalkTerminates ==
    /\ []WalkRequestCount
    /\ [][/\ (requests' # requests /\ ~tasks'[1].resp.success) => tasks'[1].pc = "failed"
          /\ tasks[1].pc = "failed" => requests' = requests]_vars
    /\ <>WalkOver

C25_Witness ==
    /\ WalkReturned
    /\ HISTORY_START_MONTH = <<"2022", "11">>
    /\ now = [y |-> 2024, m |-> 12, d |-> 31]
    /\ Cardinality(RequestsOf("history")) = 3

\* The history requests of a run, in the order it issued them.
HistoryRequests(op) == SelectSeq(op.reqs, LAMBDA r : r.op = "history")

\* C26: every monthly walk for the entry starts at the entry's start month:
\* the walk of each station in the setup cycle, and the walk of every update
\* of one of the entry's entities.
C26_WalkFromEntryStart ==
    /\ [](\A r \in RequestsOf("history") :
             \E q \in RequestsOf("history") :
                 q.arg[1] = r.arg[1] /\ q.arg[2] = EntryStartMonth)
    /\ [][(nUpdates' = nUpdates + 1 /\ HistoryRequests(lastOp') # <<>>)
          => HistoryRequests(lastOp')[1].arg[2] = EntryStartMonth]_vars

\* The entity an update is about to run on carries the error of an earlier
\* failed update.
TargetHadError == "last_update_error" \in DOMAIN published[lastOp'.target].attrs

\* C27: when an update of an entity that carries the error of an earlier
\* failed update does not raise (the provider holds data for the reading of
\* every entity of the list), the entity's value is no longer null and its
\* attributes no longer hold last_update_error; and when the lease of the
\* token the entity holds is over, the update requests a new one.
C27_Recovers ==
    [][(nUpdates' = nUpdates + 1 /\ TargetHadError)
       => /\ lastOp'.caught = <<>>
                => /\ ~IsNone(published'[lastOp'.target].native_value)
                   /\ "last_update_error" \notin DOMAIN published'[lastOp'.target].attrs
          /\ (lastOp'.held # 0 /\ lastOp'.held <= elapsed) => TokenRequested(lastOp')]_vars

\* The cycle has written its caches and handed over its entities.
Saved == pc = "done" /\ result = "success" /\ tasks # <<>>

\* The tasks of the cycle whose monthly walk returned (a daily request is
\* issued only after it), and those whose daily fetches all succeeded too.
WalkSucceeded ==
    {i \in DOMAIN tasks :
        \/ tasks[i].pc = "done"
        \/ /\ tasks[i].pc = "failed"
           /\ \E r \in RequestsOf("daily") : r.arg[1] = tasks[i].station_id[1]}
DailySucceeded == {i \in DOMAIN tasks : tasks[i].pc = "done"}

\* C28: the files written at the end of a successful cycle hold a monthly
\* entry exactly for the stations whose walk returned in this cycle, with
\* the records the provider holds for the walk's months, and a daily entry
\* exactly for the stations whose daily fetches succeeded as well, with the
\* provider's record of each date; every station with a daily entry has a
\* monthly one.
C28_SnapshotOfCycle ==
    Saved =>
        /\ ~IsNone(cacheFile) /\ ~IsNone(dailyCacheFile)
        /\ DOMAIN cacheFile[1] = {tasks[i].station_id[1] : i \in WalkSucceeded}
        /\ DOMAIN dailyCacheFile[1] = {tasks[i].station_id[1] : i \in DailySucceeded}
        /\ DOMAIN dailyCacheFile[1] \subseteq DOMAIN cacheFile[1]
        /\ \A sid \in DOMAIN cacheFile[1] :
              cacheFile[1][sid]
                  = MonthlyInWindow(sid, StrpMonth(EntryStartMonth)[1], YM(now.y, now.m), epoch)
        /\ \A sid \in DOMAIN dailyCacheFile[1] :
              \A day \in Range(dailyCacheFile[1][sid]) :
                  /\ day.date \in Range(DailyDates(clk))
                  /\ <<day.data>> = ProviderDaily(sid, StrpDate(day.date), epoch)

C28_Witness ==
    /\ Saved
    /\ cycles = 2
    /\ atStart[1] # None
    /\ DOMAIN atStart[1][1] = {"101", "102"}
    /\ stations = <<S101, S102>>
    /\ tasks[1].pc = "failed"
    /\ tasks[2].pc = "done"
    /\ DOMAIN cacheFile[1] = {"101", "102"}
    /\ DOMAIN dailyCacheFile[1] = {"102"}

============================================================================
